---------------------------- MODULE Spec2Model ----------------------------
(***************************************************************************)
(* A model of the ralph-loop iteration engine (ralph_py/loop.py), its      *)
(* agent adapters (ralph_py/agents), the Codex transcript classifier       *)
(* (ralph_py/ui/codex_transcript.py), the path guardrail                   *)
(* (ralph_py/guards.py) and the git operations it calls (ralph_py/git.py). *)
(*                                                                         *)
(* Text.  A string is a sequence of tokens.  The token "M" is the          *)
(* completion marker literal <promise>COMPLETE</promise>, "x" is one       *)
(* non-blank character that is no part of the marker, " " is a blank,      *)
(* "CR" a carriage return, ":" a colon, and the role words ("user",        *)
(* "assistant", ...) are the words the classifier recognises.  So          *)
(* <<"x", "M">> is a line that carries the marker and other text, and a    *)
(* string contains the marker iff one of its tokens is "M".                *)
(*                                                                         *)
(* Optional values (Python's None) are sequences of length 0 or 1:         *)
(* None is <<>>, Some(v) is <<v>>.                                         *)
(***************************************************************************)
EXTENDS Naturals, Integers, Sequences, FiniteSets, TLC

(***************************************************************************)
(* Bounds of the model.                                                    *)
(***************************************************************************)
\* largest configured max_iterations
MaxIter == 2
\* most output lines of one agent call in the scenarios that explore output
MaxLines == 4
\* most output lines of one agent call in the other scenarios
FewLines == 2
\* longest path and allow-list entry the guard functions are called with
PathLen == 3

----------------------------------------------------------------------------
(***************************************************************************)
(* Strings                                                                 *)
(***************************************************************************)
None == <<>>
Some(v) == <<v>>

COMPLETION_MARKER == <<"M">>

IsSpace(t) == t \in {" ", "CR"}

\* str.lower() on one token
LowerTok(t) ==
    CASE t = "USER" -> "user"
      [] t = "Assistant" -> "assistant"
      [] OTHER -> t

Lower(s) == [i \in 1..Len(s) |-> LowerTok(s[i])]

RECURSIVE LStrip(_)
LStrip(s) == IF s # <<>> /\ IsSpace(Head(s)) THEN LStrip(Tail(s)) ELSE s

RECURSIVE RStrip(_)
RStrip(s) ==
    IF s # <<>> /\ IsSpace(s[Len(s)]) THEN RStrip(SubSeq(s, 1, Len(s) - 1)) ELSE s

\* str.strip()
Strip(s) == RStrip(LStrip(s))

\* str.rstrip(c) for a single character c
RECURSIVE RStripTok(_, _)
RStripTok(s, c) ==
    IF s # <<>> /\ s[Len(s)] = c THEN RStripTok(SubSeq(s, 1, Len(s) - 1), c) ELSE s

\* the members of a list
Range(q) == {q[i] : i \in 1..Len(q)}

\* COMPLETION_MARKER in s
ContainsMarker(s) == \E i \in 1..Len(s) : s[i] = "M"

----------------------------------------------------------------------------
(***************************************************************************)
(* The transcript classifier: ralph_py/ui/codex_transcript.py              *)
(***************************************************************************)
\* TranscriptLine(tag, text); n carries the number a synthetic
\* "[prompt hidden: ... n lines suppressed]" line is formatted with.
TranscriptLine(tag, text) == [tag |-> tag, text |-> text, n |-> 0]

PromptHiddenHeader == [tag |-> "PROMPT", text |-> <<"[prompt hidden]">>, n |-> 0]
PromptHiddenCount(k) == [tag |-> "PROMPT", text |-> <<"[lines suppressed]">>, n |-> k]
HidingDisabledNote == [tag |-> "SYS", text |-> <<"[prompt hiding disabled]">>, n |-> 0]

\* max(prompt_progress_every, 0)
ClampEvery(every) == IF every > 0 THEN every ELSE 0

\* CodexTranscriptParser.__init__
CodexTranscriptParser(prompt_lines, show_prompt) ==
    [role |-> "SYS",
     hide_active |-> (prompt_lines # <<>>) /\ ~show_prompt,
     prompt_i |-> 0,
     hidden |-> 0,
     header_printed |-> FALSE,
     summary_printed |-> FALSE]

\* CodexTranscriptParser._reset_prompt_state
reset_prompt_state(p, prompt_lines, show_prompt) ==
    [p EXCEPT !.hide_active = (prompt_lines # <<>>) /\ ~show_prompt,
              !.prompt_i = 0,
              !.hidden = 0,
              !.header_printed = FALSE,
              !.summary_printed = FALSE]

\* CodexTranscriptParser._finish_prompt_hiding: the new state and what it
\* appends to outputs
finish_prompt_hiding(p) ==
    IF p.hide_active /\ p.hidden > 0 /\ ~p.summary_printed
    THEN [p |-> [p EXCEPT !.summary_printed = TRUE, !.hide_active = FALSE],
          out |-> <<PromptHiddenCount(p.hidden)>>]
    ELSE [p |-> [p EXCEPT !.hide_active = FALSE], out |-> <<>>]

\* the role a marker line switches to, "" when the line is no role marker
MarkerRole(marker) ==
    CASE marker = <<"user">> -> "PROMPT"
      [] marker \in {<<"assistant">>, <<"codex">>, <<"final">>} -> "AI"
      [] marker \in {<<"thinking">>, <<"analysis">>} -> "THINK"
      [] marker \in {<<"tool">>, <<"exec">>} -> "TOOL"
      [] marker = <<"system">> -> "SYS"
      [] OTHER -> ""

\* clean_line.strip().rstrip(":").lower()
MarkerOf(line) == Lower(RStripTok(Strip(RStripTok(line, "CR")), ":"))

\* a feed that hides any line of the prompt, whatever its position
feed_anywhere(p, line, prompt_lines, show_prompt, every) ==
    LET clean == RStripTok(line, "CR")
        to == MarkerRole(MarkerOf(line))
        fin == finish_prompt_hiding(p)
    IN  IF to = "PROMPT"
        THEN [p |-> [reset_prompt_state(p, prompt_lines, show_prompt)
                        EXCEPT !.role = "PROMPT"],
              out |-> <<>>]
        ELSE IF to \in {"AI", "THINK"}
        THEN [p |-> [fin.p EXCEPT !.role = to], out |-> fin.out]
        ELSE IF to \in {"TOOL", "SYS"}
        THEN [p |-> [p EXCEPT !.role = to], out |-> <<>>]
        ELSE IF p.role = "PROMPT" /\ p.hide_active
        THEN IF p.prompt_i >= Len(prompt_lines)
             THEN [p |-> [fin.p EXCEPT !.role = "SYS"],
                   out |-> fin.out \o <<TranscriptLine("SYS", clean)>>]
             ELSE IF clean \in Range(prompt_lines)
             THEN LET q == [p EXCEPT !.prompt_i = @ + 1,
                                     !.hidden = @ + 1,
                                     !.header_printed = TRUE]
                      hdr == IF p.header_printed THEN <<>> ELSE <<PromptHiddenHeader>>
                      prog == IF ClampEvery(every) > 0
                                 /\ q.hidden % ClampEvery(every) = 0
                              THEN <<PromptHiddenCount(q.hidden)>>
                              ELSE <<>>
                  IN  [p |-> q, out |-> hdr \o prog]
             ELSE [p |-> [fin.p EXCEPT !.role = "SYS"],
                   out |-> fin.out
                           \o <<HidingDisabledNote, TranscriptLine("SYS", clean)>>]
        ELSE [p |-> p, out |-> <<TranscriptLine(p.role, clean)>>]

\* a feed that surfaces a diverged line without the disclosure note
feed_silent(p, line, prompt_lines, show_prompt, every) ==
    LET clean == RStripTok(line, "CR")
        to == MarkerRole(MarkerOf(line))
        fin == finish_prompt_hiding(p)
    IN  IF to = "PROMPT"
        THEN [p |-> [reset_prompt_state(p, prompt_lines, show_prompt)
                        EXCEPT !.role = "PROMPT"],
              out |-> <<>>]
        ELSE IF to \in {"AI", "THINK"}
        THEN [p |-> [fin.p EXCEPT !.role = to], out |-> fin.out]
        ELSE IF to \in {"TOOL", "SYS"}
        THEN [p |-> [p EXCEPT !.role = to], out |-> <<>>]
        ELSE IF p.role = "PROMPT" /\ p.hide_active
        THEN IF p.prompt_i >= Len(prompt_lines)
             THEN [p |-> [fin.p EXCEPT !.role = "SYS"],
                   out |-> fin.out \o <<TranscriptLine("SYS", clean)>>]
             ELSE IF clean = prompt_lines[p.prompt_i + 1]
             THEN LET q == [p EXCEPT !.prompt_i = @ + 1,
                                     !.hidden = @ + 1,
                                     !.header_printed = TRUE]
                      hdr == IF p.header_printed THEN <<>> ELSE <<PromptHiddenHeader>>
                      prog == IF ClampEvery(every) > 0
                                 /\ q.hidden % ClampEvery(every) = 0
                              THEN <<PromptHiddenCount(q.hidden)>>
                              ELSE <<>>
                  IN  [p |-> q, out |-> hdr \o prog]
             ELSE [p |-> [fin.p EXCEPT !.role = "SYS"],
                   out |-> fin.out
                           \o <<TranscriptLine("SYS", clean)>>]
        ELSE [p |-> p, out |-> <<TranscriptLine(p.role, clean)>>]

\* CodexTranscriptParser.feed: consumes one raw line, returns the new parser
\* state and the ordered list of tagged lines
\* a feed that tags every line it passes on as system output
feed_system_tagged(p, line, prompt_lines, show_prompt, every) ==
    LET clean == RStripTok(line, "CR")
        to == MarkerRole(MarkerOf(line))
        fin == finish_prompt_hiding(p)
    IN  IF to = "PROMPT"
        THEN [p |-> [reset_prompt_state(p, prompt_lines, show_prompt)
                        EXCEPT !.role = "PROMPT"],
              out |-> <<>>]
        ELSE IF to \in {"AI", "THINK"}
        THEN [p |-> [fin.p EXCEPT !.role = to], out |-> fin.out]
        ELSE IF to \in {"TOOL", "SYS"}
        THEN [p |-> [p EXCEPT !.role = to], out |-> <<>>]
        ELSE IF p.role = "PROMPT" /\ p.hide_active
        THEN IF p.prompt_i >= Len(prompt_lines)
             THEN [p |-> [fin.p EXCEPT !.role = "SYS"],
                   out |-> fin.out \o <<TranscriptLine("SYS", clean)>>]
             ELSE IF clean = prompt_lines[p.prompt_i + 1]
             THEN LET q == [p EXCEPT !.prompt_i = @ + 1,
                                     !.hidden = @ + 1,
                                     !.header_printed = TRUE]
                      hdr == IF p.header_printed THEN <<>> ELSE <<PromptHiddenHeader>>
                      prog == IF ClampEvery(every) > 0
                                 /\ q.hidden % ClampEvery(every) = 0
                              THEN <<PromptHiddenCount(q.hidden)>>
                              ELSE <<>>
                  IN  [p |-> q, out |-> hdr \o prog]
             ELSE [p |-> [fin.p EXCEPT !.role = "SYS"],
                   out |-> fin.out
                           \o <<HidingDisabledNote, TranscriptLine("SYS", clean)>>]
        ELSE [p |-> p, out |-> <<TranscriptLine("SYS", clean)>>]

feed(p, line, prompt_lines, show_prompt, every) ==
    LET clean == RStripTok(line, "CR")
        to == MarkerRole(MarkerOf(line))
        fin == finish_prompt_hiding(p)
    IN  IF to = "PROMPT"
        THEN [p |-> [reset_prompt_state(p, prompt_lines, show_prompt)
                        EXCEPT !.role = "PROMPT"],
              out |-> <<>>]
        ELSE IF to \in {"AI", "THINK"}
        THEN [p |-> [fin.p EXCEPT !.role = to], out |-> fin.out]
        ELSE IF to \in {"TOOL", "SYS"}
        THEN [p |-> [p EXCEPT !.role = to], out |-> <<>>]
        ELSE IF p.role = "PROMPT" /\ p.hide_active
        THEN IF p.prompt_i >= Len(prompt_lines)
             THEN [p |-> [fin.p EXCEPT !.role = "SYS"],
                   out |-> fin.out \o <<TranscriptLine("SYS", clean)>>]
             ELSE IF clean = prompt_lines[p.prompt_i + 1]
             THEN LET q == [p EXCEPT !.prompt_i = @ + 1,
                                     !.hidden = @ + 1,
                                     !.header_printed = TRUE]
                      hdr == IF p.header_printed THEN <<>> ELSE <<PromptHiddenHeader>>
                      prog == IF ClampEvery(every) > 0
                                 /\ q.hidden % ClampEvery(every) = 0
                              THEN <<PromptHiddenCount(q.hidden)>>
                              ELSE <<>>
                  IN  [p |-> q, out |-> hdr \o prog]
             ELSE [p |-> [fin.p EXCEPT !.role = "SYS"],
                   out |-> fin.out
                           \o <<HidingDisabledNote, TranscriptLine("SYS", clean)>>]
        ELSE [p |-> p, out |-> <<TranscriptLine(p.role, clean)>>]

----------------------------------------------------------------------------
(***************************************************************************)
(* The working tree: ralph_py/git.py                                       *)
(*                                                                         *)
(* A path is a string of one-character tokens.  The repository state gives *)
(* each path its content in the last commit (head), in the index and in    *)
(* the working directory: 0 is absent, 1 the committed content, 2 a        *)
(* content written since.                                                  *)
(***************************************************************************)
P_ok == <<"o", "/", "a">>
P_tracked == <<"b", "/", "t">>
P_new == <<"b", "/", "u">>
Paths == {P_ok, P_tracked, P_new}

\* code points, for the order sorted() puts paths in
Ord(c) ==
    CASE c = "/" -> 47
      [] c = "a" -> 97
      [] c = "b" -> 98
      [] c = "o" -> 111
      [] c = "t" -> 116
      [] c = "u" -> 117
      [] OTHER -> 0

\* Python's str <= str
RECURSIVE StrLeq(_, _)
StrLeq(s, t) ==
    IF s = <<>> THEN TRUE
    ELSE IF t = <<>> THEN FALSE
    ELSE IF Head(s) = Head(t) THEN StrLeq(Tail(s), Tail(t))
    ELSE Ord(Head(s)) < Ord(Head(t))

\* sorted(S)
RECURSIVE Sorted(_)
Sorted(S) ==
    IF S = {} THEN <<>>
    ELSE LET m == CHOOSE x \in S : \A y \in S : StrLeq(x, y)
         IN  <<m>> \o Sorted(S \ {m})

\* str.startswith
StartsWith(s, pre) == Len(pre) <= Len(s) /\ SubSeq(s, 1, Len(pre)) = pre

\* str.endswith("/")
EndsWithSlash(s) == s # <<>> /\ s[Len(s)] = "/"

\* Tree(repo, ok, tracked, new): a tree from the <<index, work>> contents
\* of the three paths; P_ok and P_tracked are committed, P_new is not
Tree(repo, ok, tracked, new) ==
    [repo |-> repo,
     head |-> [p \in Paths |-> IF p = P_new THEN 0 ELSE 1],
     index |-> [p \in Paths |->
                  IF p = P_ok THEN ok[1] ELSE IF p = P_tracked THEN tracked[1] ELSE new[1]],
     work |-> [p \in Paths |->
                  IF p = P_ok THEN ok[2] ELSE IF p = P_tracked THEN tracked[2] ELSE new[2]]]

CleanTree(repo) == Tree(repo, <<1, 1>>, <<1, 1>>, <<0, 0>>)

\* The trees an agent call may leave behind in a repository: nothing
\* changed; an allowed file edited; a tracked file outside the allow-list
\* edited; a new file outside it; all three; a tracked file outside it
\* removed with git rm.
TreesAfterAgent ==
    {CleanTree(TRUE),
     Tree(TRUE, <<1, 2>>, <<1, 1>>, <<0, 0>>),
     Tree(TRUE, <<1, 1>>, <<1, 2>>, <<0, 0>>),
     Tree(TRUE, <<1, 1>>, <<1, 1>>, <<0, 2>>),
     Tree(TRUE, <<1, 2>>, <<1, 2>>, <<0, 2>>),
     Tree(TRUE, <<1, 1>>, <<0, 0>>, <<0, 0>>)}

\* git rev-parse --is-inside-work-tree
is_git_repo(g) == g.repo

\* git diff --name-only, git diff --name-only --cached,
\* git ls-files --others --exclude-standard; outside a repository each
\* command fails and contributes nothing
get_changed_files(g) ==
    IF ~g.repo THEN {}
    ELSE {p \in Paths : \/ g.index[p] # 0 /\ g.work[p] # g.index[p]
                        \/ g.index[p] # g.head[p]
                        \/ g.index[p] = 0 /\ g.work[p] # 0}

\* git ls-files --error-unmatch: the path is in the index
is_file_tracked(g, f) == g.index[f] # 0

\* git restore --staged --worktree -- f: index and working file from HEAD
restore_file(g, f) ==
    [g EXCEPT !.index[f] = g.head[f], !.work[f] = g.head[f]]

\* Path.unlink / shutil.rmtree when the path exists
delete_untracked(g, f) == [g EXCEPT !.work[f] = 0]

\* an order in which a Python set is iterated
RECURSIVE IterationOrder(_)
IterationOrder(S) ==
    IF S = {} THEN <<>>
    ELSE LET x == CHOOSE y \in S : TRUE
         IN  <<x>> \o IterationOrder(S \ {x})

----------------------------------------------------------------------------
(***************************************************************************)
(* The path guardrail: ralph_py/guards.py                                  *)
(***************************************************************************)
\* a matching in which every entry is a prefix
path_is_allowed_prefix(path, allowed_paths) ==
    \E i \in 1..Len(allowed_paths) :
        LET allowed == allowed_paths[i]
        IN  StartsWith(path, allowed) \/ path \o <<"/">> = allowed

path_is_allowed(path, allowed_paths) ==
    \E i \in 1..Len(allowed_paths) :
        LET allowed == allowed_paths[i]
        IN  IF EndsWithSlash(allowed)
            THEN StartsWith(path, allowed) \/ path \o <<"/">> = allowed
            ELSE path = allowed

\* check_violations without the sort
check_violations_unsorted(changed_files, allowed_paths) ==
    IF allowed_paths = <<>> THEN <<>>
    ELSE SelectSeq(changed_files,
                   LAMBDA f : ~path_is_allowed(f, allowed_paths))

\* check_violations that reports under an empty allow-list too
check_violations_strict(changed_files, allowed_paths) ==
    SelectSeq(Sorted(Range(changed_files)),
              LAMBDA f : ~path_is_allowed(f, allowed_paths))

\* check_violations; changed_files is the set in the order Python iterates it
check_violations(changed_files, allowed_paths) ==
    IF allowed_paths = <<>> THEN <<>>
    ELSE SelectSeq(Sorted(Range(changed_files)),
                   LAMBDA f : ~path_is_allowed(f, allowed_paths))

\* the loop of the "Revert and continue" branch
RECURSIVE revert_violations(_, _)
revert_violations(g, violations) ==
    IF violations = <<>> THEN g
    ELSE LET f == Head(violations)
         IN  revert_violations(
                 IF is_file_tracked(g, f) THEN restore_file(g, f)
                 ELSE delete_untracked(g, f),
                 Tail(violations))

\* an enforcement that asks the human even when the UI cannot prompt
enforce_allowed_paths_asks(interactive, allowed_paths, can_prompt, g, choice) ==
    LET violations == check_violations(IterationOrder(get_changed_files(g)),
                                       allowed_paths)
        skip == [ok |-> TRUE, violations |-> <<>>, git |-> g,
                 asked |-> FALSE, err |-> FALSE, read |-> FALSE]
    IN  IF allowed_paths = <<>> THEN skip
        ELSE IF ~is_git_repo(g) THEN skip
        ELSE IF violations = <<>> THEN [skip EXCEPT !.read = TRUE]
        ELSE IF ~interactive
        THEN [ok |-> FALSE, violations |-> violations, git |-> g,
              asked |-> FALSE, err |-> TRUE, read |-> TRUE]
        ELSE IF choice = 0
        THEN [ok |-> FALSE, violations |-> violations, git |-> g,
              asked |-> TRUE, err |-> FALSE, read |-> TRUE]
        ELSE IF choice = 1
        THEN [ok |-> TRUE, violations |-> <<>>,
              git |-> revert_violations(g, violations),
              asked |-> TRUE, err |-> FALSE, read |-> TRUE]
        ELSE [ok |-> TRUE, violations |-> violations, git |-> g,
              asked |-> TRUE, err |-> FALSE, read |-> TRUE]

\* enforce_allowed_paths: what it returns (ok, violations), the tree it
\* leaves, whether it solicited a choice, whether it called ui.err, and
\* whether it read the changed files of the working tree.
\* choice is the index ui.choose returns when it is asked.
enforce_allowed_paths(interactive, allowed_paths, can_prompt, g, choice) ==
    LET violations == check_violations(IterationOrder(get_changed_files(g)),
                                       allowed_paths)
        skip == [ok |-> TRUE, violations |-> <<>>, git |-> g,
                 asked |-> FALSE, err |-> FALSE, read |-> FALSE]
    IN  IF allowed_paths = <<>> THEN skip
        ELSE IF ~is_git_repo(g) THEN skip
        ELSE IF violations = <<>> THEN [skip EXCEPT !.read = TRUE]
        ELSE IF ~interactive
        THEN [ok |-> FALSE, violations |-> violations, git |-> g,
              asked |-> FALSE, err |-> TRUE, read |-> TRUE]
        ELSE IF ~can_prompt
        THEN [ok |-> FALSE, violations |-> violations, git |-> g,
              asked |-> FALSE, err |-> FALSE, read |-> TRUE]
        ELSE IF choice = 0
        THEN [ok |-> FALSE, violations |-> violations, git |-> g,
              asked |-> TRUE, err |-> FALSE, read |-> TRUE]
        ELSE IF choice = 1
        THEN [ok |-> TRUE, violations |-> <<>>,
              git |-> revert_violations(g, violations),
              asked |-> TRUE, err |-> FALSE, read |-> TRUE]
        ELSE [ok |-> TRUE, violations |-> violations, git |-> g,
              asked |-> TRUE, err |-> FALSE, read |-> TRUE]

----------------------------------------------------------------------------
(***************************************************************************)
(* The agent adapters: ralph_py/agents/codex.py, ralph_py/agents/custom.py *)
(***************************************************************************)
\* What the generator of run() remembers of the lines it has yielded:
\* CodexAgent keeps last_non_empty_line, CustomAgent the list whose last
\* element it reads.
agent_remember(kind, remembered, line) ==
    IF kind = "codex"
    THEN IF Strip(line) # <<>> THEN Some(line) ELSE remembered
    ELSE Some(line)

\* CodexAgent.run after proc.wait(): written is what the codex process left
\* in the --output-last-message file (it stays empty when the flag is not
\* passed or nothing is written)
codex_final_message(supports, written, last_non_empty_line, current) ==
    IF supports /\ Strip(written) # <<>> THEN Some(Strip(written))
    ELSE IF current = None /\ last_non_empty_line # None
    THEN last_non_empty_line
    ELSE current

\* CustomAgent.run after proc.wait(): output_lines[-1] if output_lines
custom_final_message(last_line, current) ==
    IF last_line # None THEN last_line ELSE current

----------------------------------------------------------------------------
(***************************************************************************)
(* The iteration engine: ralph_py/loop.py                                  *)
(***************************************************************************)
LoopResult(completed, iterations, exit_code) ==
    [completed |-> completed, iterations |-> iterations, exit_code |-> exit_code]

\* git.checkout_branch: the git command run for branch, given whether the
\* branch exists and the return code of git
checkout_branch(branch, source, exists, returncode) ==
    [cmd |-> IF exists THEN <<"git", "checkout", branch>>
             ELSE <<"git", "checkout", "-b", branch>>,
     source |-> source,
     exists |-> exists,
     ok |-> returncode = 0]

\* a _determine_branch that prefers the branch the PRD declares
determine_branch_prd_first(cfg, prd) ==
    IF prd = "valid"
    THEN [branch |-> Some("prd-branch"), source |-> "from PRD"]
    ELSE IF cfg.ralph_branch # None
    THEN [branch |-> cfg.ralph_branch, source |-> "from RALPH_BRANCH"]
    ELSE [branch |-> None, source |-> "none"]

\* a _determine_branch that uses the configured branch only when the
\* explicit flag is set
determine_branch_by_flag(cfg, prd) ==
    IF cfg.ralph_branch # None /\ cfg.ralph_branch_explicit
    THEN [branch |-> cfg.ralph_branch, source |-> "from RALPH_BRANCH"]
    ELSE IF prd = "valid"
    THEN [branch |-> Some("prd-branch"), source |-> "from PRD"]
    ELSE [branch |-> None, source |-> "none"]

\* _determine_branch: (branch, source); prd is the state of the PRD file
determine_branch(cfg, prd) ==
    IF cfg.ralph_branch # None
    THEN IF cfg.ralph_branch_explicit
         THEN [branch |-> cfg.ralph_branch, source |-> "from RALPH_BRANCH"]
         ELSE [branch |-> cfg.ralph_branch, source |-> "default"]
    ELSE IF prd = "valid"
    THEN [branch |-> Some("prd-branch"), source |-> "from PRD"]
    ELSE [branch |-> None, source |-> "none"]

\* next((l.strip() for l in reversed(output_lines) if l.strip()), "")
RECURSIVE last_non_empty(_)
last_non_empty(lines) ==
    IF lines = <<>> THEN <<>>
    ELSE IF Strip(lines[Len(lines)]) # <<>> THEN Strip(lines[Len(lines)])
    ELSE last_non_empty(SubSeq(lines, 1, Len(lines) - 1))

\* the scan of the completion parser's output for one raw line
\* (loop.py: for parsed in completion_parser.feed(line))
RECURSIVE scan_ai(_, _)
scan_ai(last, parsed) ==
    IF parsed = <<>> THEN last
    ELSE scan_ai(IF Head(parsed).tag = "AI" /\ Strip(Head(parsed).text) # <<>>
                 THEN Some(Strip(Head(parsed).text))
                 ELSE last,
                 Tail(parsed))

\* the detection without its second rule: Codex falls through to raw lines
detect_completion_raw(is_codex_agent, final, last_ai, lines) ==
    IF final # None /\ final[1] # <<>> /\ ContainsMarker(final[1]) THEN TRUE
    ELSE last_non_empty(lines) = COMPLETION_MARKER

\* the completion detection of one iteration
detect_completion(is_codex_agent, final, last_ai, lines) ==
    IF final # None /\ final[1] # <<>> /\ ContainsMarker(final[1]) THEN TRUE
    ELSE IF is_codex_agent THEN last_ai = Some(COMPLETION_MARKER)
    ELSE last_non_empty(lines) = COMPLETION_MARKER

----------------------------------------------------------------------------
(***************************************************************************)
(* State                                                                   *)
(***************************************************************************)
VARIABLES
    config,             \* RalphConfig; only interactive is ever written
    world,              \* what run_loop is called with and runs in
    git,                \* the working tree under cwd
    pc,                 \* where run_loop is
    is_repo,            \* run_loop's local: git.is_git_repo(cwd) at preflight
    iteration,          \* the loop variable
    output_lines,       \* the raw lines of this iteration
    completion_parser,  \* the parser fed for completion detection
    last_ai_line,       \* last non-empty assistant line seen, or None
    remembered,         \* the agent generator's memory of the lines yielded
    final_message,      \* agent._final_message
    completion_seen,
    result,             \* None until run_loop returns its LoopResult
    agent_calls,        \* history: how many times agent.run was called
    returns,            \* history: how many LoopResults were returned
    guard,              \* history: the outcome of this iteration's guardrail
    pause_choice,       \* history: the choice made at this iteration's pause
    checkout,           \* history: what preflight did about the branch
    emitted,            \* history: what the agent calls so far have put out
    ui_err,             \* history: the ui.err calls, in order
    steps,              \* history: what this iteration has done, in order
    alive,              \* history: agent child processes spawned, not yet waited on
    skipped,            \* history: the human has chosen "Skip interactive"
    git_checkouts,      \* history: the git checkout commands run, in order
    sleeps,             \* history: how many times run_loop has slept
    raised,             \* the exception by which run_loop was left, if any
    call,               \* a direct call of a guard function: arguments and result
    parser,             \* a CodexTranscriptParser driven on its own
    fed,                \* the raw lines fed to parser, in order
    outs,               \* what each feed returned, in order
    display,            \* one iteration's display pipeline driven on its own
    feature,            \* a run of the feature command
    LOCK,               \* per process: the thread holding _LOCK, 0 when free
    ACTIVE_ROOTS,       \* per process: the set _ACTIVE_ROOTS
    threads,            \* per thread: where it is in acquire_root_lock
    tool_calls          \* per server thread: the root each running tool
                        \* call's run_loop works on

\* the state of a run_loop invocation but for the control point
loop_vars_but_pc ==
    <<config, world, git, is_repo, iteration, output_lines,
      completion_parser, last_ai_line, remembered, final_message,
      completion_seen, result, agent_calls, returns, guard, pause_choice,
      checkout, emitted, ui_err, steps, alive, skipped, git_checkouts, sleeps,
      raised>>

\* the state of a run_loop invocation
loop_vars ==
    <<config, world, git, pc, is_repo, iteration, output_lines,
      completion_parser, last_ai_line, remembered, final_message,
      completion_seen, result, agent_calls, returns, guard, pause_choice,
      checkout, emitted, ui_err, steps, alive, skipped, git_checkouts, sleeps,
      raised>>

\* the state of the components driven on their own
lock_vars == <<LOCK, ACTIVE_ROOTS, threads, tool_calls>>

unit_vars == <<call, parser, fed, outs, lock_vars, display, feature>>

vars == <<loop_vars, unit_vars>>

\* lines an agent may print
L_assistant == <<"Assistant", ":">>
L_user == <<"user">>
L_system == <<"system">>
L_marker == COMPLETION_MARKER
L_marker_text == <<"x", "M">>
L_text == <<"x">>
L_blank == <<>>

Lines == {L_assistant, L_user, L_system, L_marker, L_marker_text, L_text, L_blank}

\* what the codex process may leave in the --output-last-message file
LastMessages == {<<>>, L_text, L_marker, L_marker_text}

\* the final message an agent object carries from an earlier run_loop
\* invocation that completed
StaleFinalMessage == <<"old", " ", "M">>

\* the prompt file's lines
PromptLines == <<L_text, L_marker>>

AllowLists == {<<>>, << <<"o", "/">> >>}

RalphConfig(n, interactive, allowed_paths, branch, explicit) ==
    [max_iterations |-> n,
     interactive |-> interactive,
     allowed_paths |-> allowed_paths,
     ralph_branch |-> branch,
     ralph_branch_explicit |-> explicit]

World(scn, agent, supports, prompt_exists, prd, can_prompt, callback, stale) ==
    [scn |-> scn,
     stale |-> stale,
     agent |-> agent,
     supports_output_last_message |-> supports,
     prompt_exists |-> prompt_exists,
     prd |-> prd,
     can_prompt |-> can_prompt,
     callback |-> callback]

(***************************************************************************)
(* The scenarios explored.  "out" runs one iteration with every output of  *)
(* up to MaxLines lines over Lines, outside a repository; "loop" runs up   *)
(* to MaxIter iterations of at most FewLines lines under every combination *)
(* of interactive mode, prompt capability, allow-list, repository and      *)
(* iteration callback; "pre" varies what preflight reads.                  *)
(***************************************************************************)
OutScenarios ==
    {[config |-> RalphConfig(1, FALSE, <<>>, Some(""), TRUE),
      world |-> World("out", a[1], a[2], TRUE, "missing", FALSE, "none", st),
      repo |-> FALSE] :
        a \in {<<"codex", TRUE>>, <<"codex", FALSE>>, <<"custom", FALSE>>},
        st \in BOOLEAN}

LoopScenarios ==
    {[config |-> RalphConfig(n, i, al, Some(""), TRUE),
      world |-> World("loop", a, FALSE, TRUE, "missing", cp, cb, FALSE),
      repo |-> r] :
        n \in 0..MaxIter, i \in BOOLEAN, al \in AllowLists,
        a \in {"codex", "custom"}, cp \in BOOLEAN,
        cb \in {"none", "read_only_guard"}, r \in BOOLEAN}

PreScenarios ==
    {[config |-> RalphConfig(n, FALSE, <<>>, b, e),
      world |-> World("pre", "custom", FALSE, pe, prd, FALSE, "none", FALSE),
      repo |-> r] :
        n \in 0..1, b \in {None, Some(""), Some("feature")}, e \in BOOLEAN,
        pe \in BOOLEAN, prd \in {"missing", "invalid", "valid"}, r \in BOOLEAN}

Scenarios == OutScenarios \cup LoopScenarios \cup PreScenarios

\* the lines and the number of lines an agent call prints in a scenario
LinesOf(scn) == IF scn = "out" THEN Lines ELSE {L_assistant, L_marker, L_text}
MaxLinesOf(scn) == IF scn = "out" THEN MaxLines ELSE FewLines

NoGuard == [ran |-> FALSE, interactive |-> FALSE, ok |-> TRUE,
            violations |-> <<>>, asked |-> FALSE, choice |-> 0 - 1]

\* the state of scenario s with control at the place at
LoopInitAt(s, at) ==
    /\ config = s.config
    /\ world = s.world
    /\ git = CleanTree(s.repo)
    /\ pc = at
    /\ is_repo = FALSE
    /\ iteration = 0
    /\ output_lines = <<>>
    /\ completion_parser = CodexTranscriptParser(PromptLines, TRUE)
    /\ last_ai_line = None
    /\ remembered = None
    /\ final_message = IF s.world.stale THEN Some(StaleFinalMessage) ELSE None
    /\ completion_seen = FALSE
    /\ result = None
    /\ agent_calls = 0
    /\ returns = 0
    /\ guard = NoGuard
    /\ pause_choice = 0 - 1
    /\ checkout = "none"
    /\ emitted = [exact |-> FALSE, final |-> FALSE]
    /\ ui_err = <<>>
    /\ steps = <<>>
    /\ alive = 0
    /\ skipped = FALSE
    /\ git_checkouts = <<>>
    /\ sleeps = 0
    /\ raised = None

\* the state run_loop is called in, in scenario s
LoopInit(s) == LoopInitAt(s, "start")

\* the processes, and the threads of each: threads 1 and 2 run in process
\* 1, thread 3 in process 2
Procs == {1, 2}
Threads == {1, 2, 3}
ProcOf(t) == IF t = 3 THEN 2 ELSE 1

\* the roots as passed, and root.resolve()
RootPaths == {"/r", "/r/.", "/s"}
resolve(path) == IF path = "/r/." THEN "/r" ELSE path

\* the tool calls a server can have running at once
CallSlots == {"c1", "c2"}

\* exc: the body of the with statement ended by an exception
IdleThread == [pc |-> "idle", root |-> "", exc |-> FALSE]

\* the state of the locks module when it is imported in each process, no
\* thread in acquire_root_lock and no server running
LockIdle ==
    /\ LOCK = [p \in Procs |-> 0]
    /\ ACTIVE_ROOTS = [p \in Procs |-> {}]
    /\ threads = [t \in Threads |-> IdleThread]
    /\ tool_calls = [t \in Threads |-> [c \in CallSlots |-> ""]]

\* no component is driven on its own
UnitIdle ==
    /\ call = None
    /\ parser = None
    /\ fed = <<>>
    /\ outs = <<>>
    /\ LockIdle
    /\ display = None
    /\ feature = None

Init == (\E s \in Scenarios : LoopInit(s)) /\ UnitIdle

----------------------------------------------------------------------------
(***************************************************************************)
(* What an iteration's output says, read off the whole list of raw lines   *)
(* rather than accumulated line by line as the loop does.                  *)
(***************************************************************************)
Max(S) == CHOOSE m \in S : \A k \in S : k <= m

\* line i of out is a role-marker line
IsRoleMarker(out, i) == MarkerRole(MarkerOf(out[i])) # ""

\* the channel in force at line i: the role of the last role-marker line
\* before it, the system channel when there is none
ChannelAt(out, i) ==
    LET before == {j \in 1..(i - 1) : IsRoleMarker(out, j)}
    IN  IF before = {} THEN "SYS" ELSE MarkerRole(MarkerOf(out[Max(before)]))

\* the non-empty lines of the assistant channel
AssistantLines(out) ==
    {i \in 1..Len(out) : /\ ~IsRoleMarker(out, i)
                         /\ ChannelAt(out, i) = "AI"
                         /\ Strip(out[i]) # <<>>}

\* the last non-empty assistant-channel line, stripped, or None
LastAssistantLine(out) ==
    IF AssistantLines(out) = {} THEN None
    ELSE Some(Strip(out[Max(AssistantLines(out))]))

\* the last non-empty raw line, stripped, or the empty string
LastNonEmptyLine(out) ==
    LET ne == {i \in 1..Len(out) : Strip(out[i]) # <<>>}
    IN  IF ne = {} THEN <<>> ELSE Strip(out[Max(ne)])

\* the marker literal occurs somewhere in the output
MarkerOccurs(out) == \E i \in 1..Len(out) : ContainsMarker(out[i])

\* the output ends with the exact marker as its last non-empty relevant
\* line: of the assistant channel for Codex, of the raw output otherwise
EndsWithExactMarker(agent, out) ==
    IF agent = "codex" THEN LastAssistantLine(out) = Some(COMPLETION_MARKER)
    ELSE LastNonEmptyLine(out) = COMPLETION_MARKER

----------------------------------------------------------------------------
(***************************************************************************)
(* run_loop, step by step                                                  *)
(***************************************************************************)
\* return LoopResult(...)
Return(r) ==
    /\ result' = Some(r)
    /\ returns' = returns + 1
    /\ pc' = "done"

\* a missing prompt that is not reported
PromptMissing_silent ==
    /\ pc = "start"
    /\ ~world.prompt_exists
    /\ Return(LoopResult(FALSE, 0, 1))
    /\ UNCHANGED <<config, world, git, is_repo, iteration, output_lines,
                   completion_parser, last_ai_line, remembered, final_message,
                   completion_seen, agent_calls, guard, pause_choice, checkout, emitted,
                   ui_err, steps, alive, skipped,
                   git_checkouts, sleeps, raised, unit_vars>>

\* loop.py 283-286: the prompt file does not exist
PromptMissing ==
    /\ pc = "start"
    /\ ~world.prompt_exists
    /\ Return(LoopResult(FALSE, 0, 1))
    /\ ui_err' = Append(ui_err, "prompt file not found")
    /\ UNCHANGED <<config, world, git, is_repo, iteration, output_lines,
                   completion_parser, last_ai_line, remembered, final_message,
                   completion_seen, agent_calls, guard, pause_choice, checkout, emitted,
                   steps, alive, skipped, git_checkouts, sleeps, raised, unit_vars>>

\* a preflight that reports a failed checkout and goes on to the loop
Preflight_lenient ==
    /\ pc = "start"
    /\ world.prompt_exists
    /\ is_repo' = is_git_repo(git)
    /\ LET b == determine_branch(config, world.prd)
       IN  IF ~is_git_repo(git)
           THEN /\ checkout' = "not a repository"
                /\ pc' = "loop"
                /\ UNCHANGED <<result, returns, ui_err, git_checkouts>>
           ELSE IF b.branch # None /\ b.branch[1] # ""
           THEN \E exists \in BOOLEAN, returncode \in {0, 1} :
                    LET c == checkout_branch(b.branch[1], b.source, exists,
                                             returncode)
                    IN  /\ git_checkouts' = Append(git_checkouts, c)
                        /\ IF c.ok
                           THEN /\ checkout' = "ok"
                                /\ pc' = "loop"
                                /\ UNCHANGED <<result, returns, ui_err>>
                           ELSE /\ checkout' = "failed"
                                /\ ui_err' = Append(ui_err,
                                                    "failed to checkout branch")
                                /\ pc' = "loop"
                                /\ UNCHANGED <<result, returns>>
           ELSE /\ checkout' = IF b.branch = Some("") THEN "skipped"
                               ELSE "no branch configured"
                /\ pc' = "loop"
                /\ UNCHANGED <<result, returns, ui_err, git_checkouts>>
    /\ UNCHANGED <<config, world, git, iteration, output_lines,
                   completion_parser, last_ai_line, remembered, final_message,
                   completion_seen, agent_calls, guard, pause_choice, emitted,
                   steps, alive, skipped, sleeps, raised, unit_vars>>

\* loop.py 288-311: the prompt is read, the branch is resolved and checked
\* out; a failed checkout returns
Preflight ==
    /\ pc = "start"
    /\ world.prompt_exists
    /\ is_repo' = is_git_repo(git)
    /\ LET b == determine_branch(config, world.prd)
       IN  IF ~is_git_repo(git)
           THEN /\ checkout' = "not a repository"
                /\ pc' = "loop"
                /\ UNCHANGED <<result, returns, ui_err, git_checkouts>>
           ELSE IF b.branch # None /\ b.branch[1] # ""
           THEN \E exists \in BOOLEAN, returncode \in {0, 1} :
                    LET c == checkout_branch(b.branch[1], b.source, exists,
                                             returncode)
                    IN  /\ git_checkouts' = Append(git_checkouts, c)
                        /\ IF c.ok
                           THEN /\ checkout' = "ok"
                                /\ pc' = "loop"
                                /\ UNCHANGED <<result, returns, ui_err>>
                           ELSE /\ checkout' = "failed"
                                /\ ui_err' = Append(ui_err,
                                                    "failed to checkout branch")
                                /\ Return(LoopResult(FALSE, 0, 1))
           ELSE /\ checkout' = IF b.branch = Some("") THEN "skipped"
                               ELSE "no branch configured"
                /\ pc' = "loop"
                /\ UNCHANGED <<result, returns, ui_err, git_checkouts>>
    /\ UNCHANGED <<config, world, git, iteration, output_lines,
                   completion_parser, last_ai_line, remembered, final_message,
                   completion_seen, agent_calls, guard, pause_choice, emitted,
                   steps, alive, skipped, sleeps, raised, unit_vars>>

\* an agent call that does not clear the final message
StartIteration_stale ==
    /\ pc = "loop"
    /\ iteration < config.max_iterations
    /\ iteration' = iteration + 1
    /\ output_lines' = <<>>
    /\ completion_parser' = CodexTranscriptParser(PromptLines, TRUE)
    /\ last_ai_line' = None
    /\ remembered' = None
    /\ completion_seen' = FALSE
    /\ agent_calls' = agent_calls + 1
    /\ guard' = NoGuard
    /\ pause_choice' = 0 - 1
    /\ pc' = "agent"
    /\ steps' = <<>>
    /\ alive' = alive + 1
    /\ UNCHANGED <<config, world, final_message, git, is_repo, result, returns, checkout, emitted,
                   ui_err, skipped, git_checkouts, sleeps, raised, unit_vars>>

\* an iteration that starts without counting
StartIteration_again ==
    /\ pc = "loop"
    /\ iteration < config.max_iterations
    /\ iteration' = iteration
    /\ output_lines' = <<>>
    /\ completion_parser' = CodexTranscriptParser(PromptLines, TRUE)
    /\ last_ai_line' = None
    /\ remembered' = None
    /\ final_message' = None
    /\ completion_seen' = FALSE
    /\ agent_calls' = agent_calls + 1
    /\ guard' = NoGuard
    /\ pause_choice' = 0 - 1
    /\ pc' = "agent"
    /\ steps' = <<>>
    /\ alive' = alive + 1
    /\ UNCHANGED <<config, world, git, is_repo, result, returns, checkout, emitted,
                   ui_err, skipped, git_checkouts, sleeps, raised, unit_vars>>

\* loop.py 324-359, 403: the next iteration starts and agent.run is called,
\* which clears the agent's final message
StartIteration ==
    /\ pc = "loop"
    /\ iteration < config.max_iterations
    /\ iteration' = iteration + 1
    /\ output_lines' = <<>>
    /\ completion_parser' = CodexTranscriptParser(PromptLines, TRUE)
    /\ last_ai_line' = None
    /\ remembered' = None
    /\ final_message' = None
    /\ completion_seen' = FALSE
    /\ agent_calls' = agent_calls + 1
    /\ guard' = NoGuard
    /\ pause_choice' = 0 - 1
    /\ pc' = "agent"
    /\ steps' = <<>>
    /\ alive' = alive + 1
    /\ UNCHANGED <<config, world, git, is_repo, result, returns, checkout, emitted,
                   ui_err, skipped, git_checkouts, sleeps, raised, unit_vars>>

\* an exhaustion that reports one iteration more than configured
Exhausted_over ==
    /\ pc = "loop"
    /\ iteration >= config.max_iterations
    /\ Return(LoopResult(FALSE, config.max_iterations + 1, 1))
    /\ UNCHANGED <<config, world, git, is_repo, iteration, output_lines,
                   completion_parser, last_ai_line, remembered, final_message,
                   completion_seen, agent_calls, guard, pause_choice, checkout, emitted,
                   ui_err, steps, alive, skipped,
                   git_checkouts, sleeps, raised, unit_vars>>

\* loop.py 560-562: the iterations are used up
Exhausted ==
    /\ pc = "loop"
    /\ iteration >= config.max_iterations
    /\ Return(LoopResult(FALSE, config.max_iterations, 1))
    /\ UNCHANGED <<config, world, git, is_repo, iteration, output_lines,
                   completion_parser, last_ai_line, remembered, final_message,
                   completion_seen, agent_calls, guard, pause_choice, checkout, emitted,
                   ui_err, steps, alive, skipped,
                   git_checkouts, sleeps, raised, unit_vars>>

\* loop.py 403-410: the agent yields one line
AgentLine ==
    /\ pc = "agent"
    /\ Len(output_lines) < MaxLinesOf(world.scn)
    /\ \E line \in LinesOf(world.scn) :
        /\ output_lines' = Append(output_lines, line)
        /\ remembered' = agent_remember(world.agent, remembered, line)
        /\ IF world.agent = "codex"
           THEN LET f == feed(completion_parser, line, PromptLines, TRUE, 0)
                IN  /\ completion_parser' = f.p
                    /\ last_ai_line' = scan_ai(last_ai_line, f.out)
           ELSE UNCHANGED <<completion_parser, last_ai_line>>
    /\ UNCHANGED <<config, world, git, pc, is_repo, iteration, final_message,
                   completion_seen, result, agent_calls, returns, guard,
                   pause_choice, checkout, emitted,
                   ui_err, steps, alive, skipped,
                   git_checkouts, sleeps, raised, unit_vars>>

\* an agent call that does not wait for its process
AgentExit_nowait ==
    /\ pc = "agent"
    /\ \E written \in IF world.agent = "codex" /\ world.supports_output_last_message
                      THEN LastMessages ELSE {<<>>} :
        final_message' =
            IF world.agent = "codex"
            THEN codex_final_message(world.supports_output_last_message,
                                     written, remembered, final_message)
            ELSE custom_final_message(remembered, final_message)
    /\ git' \in IF git.repo THEN TreesAfterAgent ELSE {git}
    /\ emitted' =
        [exact |-> emitted.exact \/ EndsWithExactMarker(world.agent, output_lines),
         final |-> emitted.final
                   \/ (final_message' # None /\ ContainsMarker(final_message'[1]))]
    /\ pc' = "decide"
    /\ steps' = Append(steps, "agent")
    /\ alive' = alive
    /\ UNCHANGED <<config, world, is_repo, iteration, output_lines,
                   completion_parser, last_ai_line, remembered,
                   completion_seen, result, agent_calls, returns, guard,
                   pause_choice, checkout,
                   ui_err, skipped, git_checkouts, sleeps, raised, unit_vars>>

\* the agent process exits (proc.wait()) and run() sets the final message;
\* the process leaves the working tree in some state
AgentExit ==
    /\ pc = "agent"
    /\ \E written \in IF world.agent = "codex" /\ world.supports_output_last_message
                      THEN LastMessages ELSE {<<>>} :
        final_message' =
            IF world.agent = "codex"
            THEN codex_final_message(world.supports_output_last_message,
                                     written, remembered, final_message)
            ELSE custom_final_message(remembered, final_message)
    /\ git' \in IF git.repo THEN TreesAfterAgent ELSE {git}
    /\ emitted' =
        [exact |-> emitted.exact \/ EndsWithExactMarker(world.agent, output_lines),
         final |-> emitted.final
                   \/ (final_message' # None /\ ContainsMarker(final_message'[1]))]
    /\ pc' = "decide"
    /\ steps' = Append(steps, "agent")
    /\ alive' = alive - 1
    /\ UNCHANGED <<config, world, is_repo, iteration, output_lines,
                   completion_parser, last_ai_line, remembered,
                   completion_seen, result, agent_calls, returns, guard,
                   pause_choice, checkout,
                   ui_err, skipped, git_checkouts, sleeps, raised, unit_vars>>

\* loop.py 479-487
Decide ==
    /\ pc = "decide"
    /\ completion_seen' = detect_completion(world.agent = "codex", final_message,
                                            last_ai_line, output_lines)
    /\ pc' = "callback"
    /\ steps' = Append(steps, "decide")
    /\ UNCHANGED <<config, world, git, is_repo, iteration, output_lines,
                   completion_parser, last_ai_line, remembered, final_message,
                   result, agent_calls, returns, guard, pause_choice, checkout, emitted,
                   ui_err, alive, skipped, git_checkouts, sleeps, raised, unit_vars>>

\* mcp/runner.py 37-51, 177-187: ExecutionFailedError with one detail per
\* changed file, in sorted order
ExecutionFailedError(k, changed_files) ==
    [code |-> "execution_failed", iteration |-> k, details |-> changed_files]

\* a read-only guard that is not consulted once completion was detected
Callback_unless_complete ==
    /\ pc = "callback"
    /\ IF /\ world.callback = "read_only_guard"
          /\ get_changed_files(git) # {}
          /\ ~completion_seen
       THEN /\ pc' = "raised"
            /\ raised' = Some(ExecutionFailedError(iteration,
                                                   Sorted(get_changed_files(git))))
       ELSE /\ pc' = "check"
            /\ UNCHANGED raised
    /\ UNCHANGED <<config, world, git, is_repo, iteration, output_lines,
                   completion_parser, last_ai_line, remembered, final_message,
                   completion_seen, result, agent_calls, returns, guard,
                   pause_choice, checkout, emitted,
                   ui_err, steps, alive, skipped,
                   git_checkouts, sleeps, unit_vars>>

\* loop.py 529-530 with mcp/runner.py 177-187: the read-only guard raises
\* when the tree has changed files
Callback ==
    /\ pc = "callback"
    /\ IF world.callback = "read_only_guard" /\ get_changed_files(git) # {}
       THEN /\ pc' = "raised"
            /\ raised' = Some(ExecutionFailedError(iteration,
                                                   Sorted(get_changed_files(git))))
       ELSE /\ pc' = "check"
            /\ UNCHANGED raised
    /\ UNCHANGED <<config, world, git, is_repo, iteration, output_lines,
                   completion_parser, last_ai_line, remembered, final_message,
                   completion_seen, result, agent_calls, returns, guard,
                   pause_choice, checkout, emitted,
                   ui_err, steps, alive, skipped,
                   git_checkouts, sleeps, unit_vars>>

\* a completion check that goes on to the guardrail
CheckCompletion_on ==
    /\ pc = "check"
    /\ pc' = "guard"
    /\ UNCHANGED <<config, world, git, is_repo, iteration, output_lines,
                   completion_parser, last_ai_line, remembered, final_message,
                   completion_seen, result, returns, agent_calls, guard,
                   pause_choice, checkout, emitted,
                   ui_err, steps, alive, skipped,
                   git_checkouts, sleeps, raised, unit_vars>>

\* loop.py 532-535
CheckCompletion ==
    /\ pc = "check"
    /\ IF completion_seen
       THEN Return(LoopResult(TRUE, iteration, 0))
       ELSE pc' = "guard" /\ UNCHANGED <<result, returns>>
    /\ UNCHANGED <<config, world, git, is_repo, iteration, output_lines,
                   completion_parser, last_ai_line, remembered, final_message,
                   completion_seen, agent_calls, guard, pause_choice, checkout, emitted,
                   ui_err, steps, alive, skipped,
                   git_checkouts, sleeps, raised, unit_vars>>

\* a guardrail whose failure does not stop the loop
Guard_on ==
    /\ pc = "guard"
    /\ IF config.allowed_paths # <<>> /\ is_repo
       THEN \E choice \in 0..2 :
                LET r == enforce_allowed_paths(config.interactive,
                                               config.allowed_paths,
                                               world.can_prompt, git, choice)
                IN  /\ guard' = [ran |-> TRUE,
                                 interactive |-> config.interactive,
                                 ok |-> r.ok,
                                 violations |-> r.violations,
                                 asked |-> r.asked,
                                 choice |-> IF r.asked THEN choice ELSE 0 - 1]
                    /\ git' = r.git
                    /\ steps' = Append(steps, "guard")
                    /\ ui_err' = IF r.err
                                 THEN Append(ui_err, "disallowed file changes")
                                 ELSE ui_err
                    /\ pc' = "pause"
                    /\ UNCHANGED <<result, returns>>
       ELSE pc' = "pause"
            /\ UNCHANGED <<git, guard, result, returns, steps, ui_err>>
    /\ UNCHANGED <<config, world, is_repo, iteration, output_lines,
                   completion_parser, last_ai_line, remembered, final_message,
                   completion_seen, agent_calls, pause_choice, checkout, emitted,
                   alive, skipped, git_checkouts, sleeps, raised, unit_vars>>

\* loop.py 537-541: the guardrail
Guard ==
    /\ pc = "guard"
    /\ IF config.allowed_paths # <<>> /\ is_repo
       THEN \E choice \in 0..2 :
                LET r == enforce_allowed_paths(config.interactive,
                                               config.allowed_paths,
                                               world.can_prompt, git, choice)
                IN  /\ guard' = [ran |-> TRUE,
                                 interactive |-> config.interactive,
                                 ok |-> r.ok,
                                 violations |-> r.violations,
                                 asked |-> r.asked,
                                 choice |-> IF r.asked THEN choice ELSE 0 - 1]
                    /\ git' = r.git
                    /\ steps' = Append(steps, "guard")
                    /\ ui_err' = IF r.err
                                 THEN Append(ui_err, "disallowed file changes")
                                 ELSE ui_err
                    /\ IF r.ok
                       THEN pc' = "pause" /\ UNCHANGED <<result, returns>>
                       ELSE Return(LoopResult(FALSE, iteration, 1))
       ELSE pc' = "pause"
            /\ UNCHANGED <<git, guard, result, returns, steps, ui_err>>
    /\ UNCHANGED <<config, world, is_repo, iteration, output_lines,
                   completion_parser, last_ai_line, remembered, final_message,
                   completion_seen, agent_calls, pause_choice, checkout, emitted,
                   alive, skipped, git_checkouts, sleeps, raised, unit_vars>>

\* a pause that asks a sink that cannot prompt
Pause_deaf ==
    /\ pc = "pause"
    /\ IF config.interactive
       THEN \E choice \in 0..2 :
                /\ pause_choice' = choice
                /\ steps' = Append(steps, "pause")
                /\ skipped' = (skipped \/ choice = 1)
                /\ config' = IF choice = 1
                             THEN [config EXCEPT !.interactive = FALSE]
                             ELSE config
                /\ IF choice = 2
                   THEN Return(LoopResult(FALSE, iteration, 0))
                   ELSE pc' = "sleep" /\ UNCHANGED <<result, returns>>
       ELSE pc' = "sleep"
            /\ UNCHANGED <<config, pause_choice, result, returns, steps, skipped>>
    /\ UNCHANGED <<world, git, is_repo, iteration, output_lines,
                   completion_parser, last_ai_line, remembered, final_message,
                   completion_seen, agent_calls, guard, checkout, emitted,
                   ui_err, alive, git_checkouts, sleeps, raised, unit_vars>>

\* a pause whose Skip leaves the flag set
Pause_forget ==
    /\ pc = "pause"
    /\ IF config.interactive /\ world.can_prompt
       THEN \E choice \in 0..2 :
                /\ pause_choice' = choice
                /\ steps' = Append(steps, "pause")
                /\ skipped' = (skipped \/ choice = 1)
                /\ config' = config
                /\ IF choice = 2
                   THEN Return(LoopResult(FALSE, iteration, 0))
                   ELSE pc' = "sleep" /\ UNCHANGED <<result, returns>>
       ELSE pc' = "sleep"
            /\ UNCHANGED <<config, pause_choice, result, returns, steps, skipped>>
    /\ UNCHANGED <<world, git, is_repo, iteration, output_lines,
                   completion_parser, last_ai_line, remembered, final_message,
                   completion_seen, agent_calls, guard, checkout, emitted,
                   ui_err, alive, git_checkouts, sleeps, raised, unit_vars>>

\* a pause whose Quit returns exit code 1
Pause_quit1 ==
    /\ pc = "pause"
    /\ IF config.interactive /\ world.can_prompt
       THEN \E choice \in 0..2 :
                /\ pause_choice' = choice
                /\ steps' = Append(steps, "pause")
                /\ skipped' = (skipped \/ choice = 1)
                /\ config' = IF choice = 1
                             THEN [config EXCEPT !.interactive = FALSE]
                             ELSE config
                /\ IF choice = 2
                   THEN Return(LoopResult(FALSE, iteration, 1))
                   ELSE pc' = "sleep" /\ UNCHANGED <<result, returns>>
       ELSE pc' = "sleep"
            /\ UNCHANGED <<config, pause_choice, result, returns, steps, skipped>>
    /\ UNCHANGED <<world, git, is_repo, iteration, output_lines,
                   completion_parser, last_ai_line, remembered, final_message,
                   completion_seen, agent_calls, guard, checkout, emitted,
                   ui_err, alive, git_checkouts, sleeps, raised, unit_vars>>

\* loop.py 543-554: the interactive pause
Pause ==
    /\ pc = "pause"
    /\ IF config.interactive /\ world.can_prompt
       THEN \E choice \in 0..2 :
                /\ pause_choice' = choice
                /\ steps' = Append(steps, "pause")
                /\ skipped' = (skipped \/ choice = 1)
                /\ config' = IF choice = 1
                             THEN [config EXCEPT !.interactive = FALSE]
                             ELSE config
                /\ IF choice = 2
                   THEN Return(LoopResult(FALSE, iteration, 0))
                   ELSE pc' = "sleep" /\ UNCHANGED <<result, returns>>
       ELSE pc' = "sleep"
            /\ UNCHANGED <<config, pause_choice, result, returns, steps, skipped>>
    /\ UNCHANGED <<world, git, is_repo, iteration, output_lines,
                   completion_parser, last_ai_line, remembered, final_message,
                   completion_seen, agent_calls, guard, checkout, emitted,
                   ui_err, alive, git_checkouts, sleeps, raised, unit_vars>>

\* a sleep after the last iteration too
Sleep_always ==
    /\ pc = "sleep"
    /\ pc' = "loop"
    /\ steps' = Append(steps, "sleep")
    /\ sleeps' = sleeps + 1
    /\ UNCHANGED <<config, world, git, is_repo, iteration, output_lines,
                   completion_parser, last_ai_line, remembered, final_message,
                   completion_seen, result, agent_calls, returns, guard,
                   pause_choice, checkout, emitted,
                   ui_err, alive, skipped, git_checkouts, raised, unit_vars>>

\* a sleep that also advances the loop variable
Sleep_skip ==
    /\ pc = "sleep"
    /\ pc' = "loop"
    /\ iteration' = IF iteration < config.max_iterations
                    THEN iteration + 1 ELSE iteration
    /\ steps' = IF iteration < config.max_iterations
                THEN Append(steps, "sleep") ELSE steps
    /\ sleeps' = IF iteration < config.max_iterations
                 THEN sleeps + 1 ELSE sleeps
    /\ UNCHANGED <<config, world, git, is_repo, output_lines,
                   completion_parser, last_ai_line, remembered, final_message,
                   completion_seen, result, agent_calls, returns, guard,
                   pause_choice, checkout, emitted,
                   ui_err, alive, skipped, git_checkouts, raised, unit_vars>>

\* loop.py 556-558: time.sleep(config.sleep_seconds) unless this was the
\* last iteration, then back to the head of the loop
Sleep ==
    /\ pc = "sleep"
    /\ pc' = "loop"
    /\ steps' = IF iteration < config.max_iterations
                THEN Append(steps, "sleep") ELSE steps
    /\ sleeps' = IF iteration < config.max_iterations
                 THEN sleeps + 1 ELSE sleeps
    /\ UNCHANGED <<config, world, git, is_repo, iteration, output_lines,
                   completion_parser, last_ai_line, remembered, final_message,
                   completion_seen, result, agent_calls, returns, guard,
                   pause_choice, checkout, emitted,
                   ui_err, alive, skipped, git_checkouts, raised, unit_vars>>

Next ==
    \/ PromptMissing
    \/ Preflight
    \/ StartIteration
    \/ Exhausted
    \/ AgentLine
    \/ AgentExit
    \/ Decide
    \/ Callback
    \/ CheckCompletion
    \/ Guard
    \/ Pause
    \/ Sleep

Spec == Init /\ [][Next]_vars

\* run_loop is one thread that runs until it returns or raises: each of its
\* own steps is taken when it is its turn
Step ==
    \/ PromptMissing
    \/ Preflight
    \/ StartIteration
    \/ Exhausted
    \/ Decide
    \/ Callback
    \/ CheckCompletion
    \/ Sleep

\* the stream of an agent call ends and its process exits: an AgentExit
\* step, told by its control points
StreamEnds == pc = "agent" /\ pc' = "decide"

\* a choice asked of the human in the guardrail or at the pause returns: a
\* Guard or a Pause step, told by its control points
ChoiceReturns ==
    \/ pc = "guard" /\ pc' \in {"pause", "done"}
    \/ pc = "pause" /\ pc' \in {"sleep", "done"}

\* the runs of the scenarios that loop and of those that stop in preflight
FairInit == (\E s \in LoopScenarios \cup PreScenarios : LoopInit(s)) /\ UnitIdle

\* the runs in which run_loop takes its steps, every agent call ends and
\* every choice returns; a further line of the agent is the one step that
\* is not bound to happen
FairSpec ==
    /\ FairInit
    /\ [][Next]_vars
    /\ WF_vars(Step)
    /\ WF_pc(StreamEnds)
    /\ WF_pc(ChoiceReturns)

----------------------------------------------------------------------------
(***************************************************************************)
(* The guard functions called directly, as the tests of guards.py call     *)
(* them, on every path and allow-list entry of up to PathLen characters.   *)
(***************************************************************************)
PathTokens == {"a", "o", "/"}

\* the strings of at most n characters
RECURSIVE StringsUpTo(_)
StringsUpTo(n) ==
    IF n = 0 THEN {<<>>}
    ELSE LET shorter == StringsUpTo(n - 1)
         IN  shorter \cup {Append(q, t) : q \in {x \in shorter : Len(x) = n - 1},
                                          t \in PathTokens}

FnPaths == StringsUpTo(PathLen)

\* the second entries of the allow-lists of two entries
FnSecondEntries == {<<"o", "/">>, <<"a">>}

\* allow-lists of at most two entries
FnAllowLists ==
    {<<>>} \cup {<<a>> : a \in FnPaths}
           \cup {<<a, b>> : a \in FnPaths, b \in FnSecondEntries}

\* the files a changed-file set is drawn from
FnFiles == {<<"o", "/", "a">>, <<"a">>, <<"o", "a">>}

\* every order in which a set may be iterated
RECURSIVE Orders(_)
Orders(S) ==
    IF S = {} THEN {<<>>}
    ELSE UNION {{<<x>> \o q : q \in Orders(S \ {x})} : x \in S}

\* the allow-lists enforce_allowed_paths is called with
EnforceAllowLists == AllowLists \cup {<< <<"b", "/">> >>, <<P_tracked>>}

\* run_loop is not running
IdleScenario ==
    [config |-> RalphConfig(0, FALSE, <<>>, Some(""), TRUE),
     world |-> World("unit", "custom", FALSE, TRUE, "missing", FALSE, "none", FALSE),
     repo |-> FALSE]

GuardInit == LoopInit(IdleScenario) /\ UnitIdle

\* path_is_allowed(path, allowed_paths)
CallPathIsAllowed ==
    /\ call = None
    /\ \E path \in FnPaths, allowed_paths \in FnAllowLists :
        /\ call' = Some([fn |-> "path_is_allowed",
                         args |-> [path |-> path, allowed_paths |-> allowed_paths],
                         ret |-> path_is_allowed(path, allowed_paths)])
        /\ UNCHANGED <<loop_vars, parser, fed, outs, display, feature, lock_vars>>

\* check_violations(changed_files, allowed_paths), called twice
CallCheckViolations ==
    /\ call = None
    /\ \E S \in SUBSET FnFiles, allowed_paths \in FnAllowLists :
        \E changed_files \in Orders(S) :
            /\ call' = Some([fn |-> "check_violations",
                             args |-> [changed_files |-> changed_files,
                                       allowed_paths |-> allowed_paths],
                             ret |-> check_violations(changed_files, allowed_paths),
                             again |-> check_violations(changed_files,
                                                        allowed_paths)])
            /\ UNCHANGED <<loop_vars, parser, fed, outs, display, feature, lock_vars>>

\* enforce_allowed_paths(config, ui, cwd)
CallEnforceAllowedPaths ==
    /\ call = None
    /\ \E interactive \in BOOLEAN, can_prompt \in BOOLEAN, choice \in 0..2,
       g \in TreesAfterAgent \cup {CleanTree(FALSE)},
       allowed_paths \in EnforceAllowLists :
        /\ call' = Some([fn |-> "enforce_allowed_paths",
                         args |-> [interactive |-> interactive,
                                   allowed_paths |-> allowed_paths,
                                   can_prompt |-> can_prompt,
                                   git |-> g,
                                   choice |-> choice],
                         ret |-> enforce_allowed_paths(interactive, allowed_paths,
                                                       can_prompt, g, choice)])
        /\ UNCHANGED <<loop_vars, parser, fed, outs, display, feature, lock_vars>>

GuardNext ==
    \/ CallPathIsAllowed
    \/ CallCheckViolations
    \/ CallEnforceAllowedPaths

GuardSpec == GuardInit /\ [][GuardNext]_vars

----------------------------------------------------------------------------
(***************************************************************************)
(* A CodexTranscriptParser driven on its own: constructed for a prompt     *)
(* file, with or without show_prompt, with a progress interval, and fed up *)
(* to MaxLines raw lines.                                                  *)
(***************************************************************************)
L_text_cr == <<"x", "CR">>

\* the raw lines fed
FeedLines == {L_user, L_assistant, L_system, L_text, L_text_cr, L_marker, L_blank}

\* the contents of the prompt file: missing or empty, or two lines
PromptFiles == {<<>>, PromptLines}

\* prompt_progress_every
ProgressIntervals == {0 - 1, 0, 1, 2}

ParserInit ==
    /\ LoopInit(IdleScenario)
    /\ call = None
    /\ fed = <<>>
    /\ outs = <<>>
    /\ LockIdle
    /\ display = None
    /\ feature = None
    /\ \E prompt_lines \in PromptFiles, show_prompt \in BOOLEAN,
          every \in ProgressIntervals :
            parser = Some([p |-> CodexTranscriptParser(prompt_lines, show_prompt),
                           prompt_lines |-> prompt_lines,
                           show_prompt |-> show_prompt,
                           every |-> every,
                           closed |-> FALSE])

\* parser.feed(line)
ParserFeed ==
    /\ parser # None
    /\ ~parser[1].closed
    /\ Len(fed) < MaxLines
    /\ \E line \in FeedLines :
        LET f == feed(parser[1].p, line, parser[1].prompt_lines,
                      parser[1].show_prompt, parser[1].every)
        IN  /\ parser' = Some([parser[1] EXCEPT !.p = f.p])
            /\ fed' = Append(fed, line)
            /\ outs' = Append(outs, f.out)
    /\ UNCHANGED <<loop_vars, call, lock_vars, display, feature>>

\* the agent's line stream ends: run_loop leaves its line loop and calls
\* nothing of the parser
ParserClose ==
    /\ parser # None
    /\ ~parser[1].closed
    /\ parser' = Some([parser[1] EXCEPT !.closed = TRUE])
    /\ UNCHANGED <<loop_vars, call, fed, outs, display, feature, lock_vars>>

ParserNext == ParserFeed \/ ParserClose

ParserSpec == ParserInit /\ [][ParserNext]_vars

----------------------------------------------------------------------------
(***************************************************************************)
(* The entry paths that build the configuration and call run_loop: the     *)
(* command line (ralph run, ralph understand) and the tool calls           *)
(* (ralph.run, ralph.understand).  MAX_ITERATIONS is set in the            *)
(* environment; the argument or tool input, when given, overrides it.      *)
(***************************************************************************)
\* the iteration counts given
EntryCounts == {0 - 1, 0, 1}

EntryPaths == {"cli run", "cli understand", "tool run", "tool understand"}

IsTool(path) == path \in {"tool run", "tool understand"}

\* an entry: the path, the argument (None when not given) and the
\* environment's MAX_ITERATIONS; the exit code is None until the process
\* exits or the tool call is answered
Entry(path, arg, env) ==
    [path |-> path, arg |-> arg, env |-> env, exit |-> None, error |-> ""]

\* what the rest of the configuration and the world are at an entry: the
\* tool calls run with allow_edits false, under the read-only guard
EntryScenario(path, env, interactive, prompt_exists) ==
    [config |-> RalphConfig(env, interactive, << <<"o", "/">> >>, Some(""), TRUE),
     world |-> World("loop", "custom", FALSE, prompt_exists, "missing", TRUE,
                     IF IsTool(path) THEN "read_only_guard" ELSE "none", FALSE),
     repo |-> TRUE]

EntryInit ==
    /\ \E path \in EntryPaths, arg \in {None} \cup {Some(n) : n \in EntryCounts},
          env \in EntryCounts, interactive \in BOOLEAN, prompt_exists \in BOOLEAN :
            /\ LoopInitAt(EntryScenario(path, env, interactive, prompt_exists),
                          "entry")
            /\ call = Some(Entry(path, arg, env))
    /\ parser = None
    /\ fed = <<>>
    /\ outs = <<>>
    /\ LockIdle
    /\ display = None
    /\ feature = None

\* cli.py run 213-275, understand 416-485: RalphConfig.from_env, the
\* argument overrides, a negative count is reported and the process exits
\* with 2, else run_loop is called
CliEntry ==
    /\ pc = "entry"
    /\ ~IsTool(call[1].path)
    /\ LET n == IF call[1].arg # None THEN call[1].arg[1] ELSE config.max_iterations
       IN  /\ config' = [config EXCEPT !.max_iterations = n]
           /\ IF n < 0
              THEN /\ ui_err' = Append(ui_err, "MAX_ITERATIONS must be non-negative")
                   /\ call' = Some([call[1] EXCEPT !.exit = Some(2)])
                   /\ pc' = "exited"
              ELSE /\ pc' = "start"
                   /\ UNCHANGED <<ui_err, call>>
    /\ UNCHANGED <<world, git, is_repo, iteration, output_lines,
                   completion_parser, last_ai_line, remembered, final_message,
                   completion_seen, result, agent_calls, returns, guard,
                   pause_choice, checkout, emitted, steps, alive, skipped,
                   git_checkouts, sleeps, raised, parser, fed, outs, display, feature, lock_vars>>

\* mcp/server.py _handle_run 132-168, _handle_understand 172-207, with
\* schema.validate_shared_inputs 129-143 and runner._build_config 106-124: a
\* negative input raises InvalidArgumentError, answered as an error result;
\* else the input, when given, overrides the environment's count and
\* run_loop is called
ToolEntry ==
    /\ pc = "entry"
    /\ IsTool(call[1].path)
    /\ IF call[1].arg # None /\ call[1].arg[1] < 0
       THEN /\ call' = Some([call[1] EXCEPT !.error = "invalid_argument"])
            /\ pc' = "exited"
            /\ UNCHANGED config
       ELSE /\ config' = [config EXCEPT !.max_iterations =
                             IF call[1].arg # None THEN call[1].arg[1] ELSE @]
            /\ pc' = "start"
            /\ UNCHANGED call
    /\ UNCHANGED <<world, git, is_repo, iteration, output_lines,
                   completion_parser, last_ai_line, remembered, final_message,
                   completion_seen, result, agent_calls, returns, guard,
                   pause_choice, checkout, emitted, ui_err, steps, alive,
                   skipped, git_checkouts, sleeps, raised, parser, fed, outs, display, feature, lock_vars>>

\* cli.py 275, 485: sys.exit(result.exit_code); mcp/server.py 144, 185: the
\* tool result carries result.loop_result.exit_code
EntryExit ==
    /\ pc = "done"
    /\ result # None
    /\ call # None
    /\ call[1].exit = None
    /\ call' = Some([call[1] EXCEPT !.exit = Some(result[1].exit_code)])
    /\ pc' = "exited"
    /\ UNCHANGED <<loop_vars_but_pc, parser, fed, outs, display, feature, lock_vars>>

EntryNext == CliEntry \/ ToolEntry \/ EntryExit \/ Next

EntrySpec == EntryInit /\ [][EntryNext]_vars

----------------------------------------------------------------------------
(***************************************************************************)
(* mcp/transport/locks.py: acquire_root_lock called by threads, each       *)
(* process with its own _LOCK and _ACTIVE_ROOTS, and the server that runs   *)
(* inside the lock (transport start) and dispatches tool calls.            *)
(***************************************************************************)
LockInit == LoopInit(IdleScenario) /\ UnitIdle

\* a thread calls acquire_root_lock(path): normalized = root.resolve()
AcquireCall(t) ==
    /\ threads[t].pc = "idle"
    /\ \E path \in RootPaths :
          threads' = [threads EXCEPT ![t] = [pc |-> "lock", root |-> resolve(path),
                                             exc |-> FALSE]]
    /\ UNCHANGED <<loop_vars, call, parser, fed, outs, display, feature, LOCK, ACTIVE_ROOTS,
                   tool_calls>>

\* with _LOCK: entered when no thread of the process holds it
TakeLock(t) ==
    /\ threads[t].pc \in {"lock", "finally"}
    /\ LOCK[ProcOf(t)] = 0
    /\ LOCK' = [LOCK EXCEPT ![ProcOf(t)] = t]
    /\ threads' = [threads EXCEPT ![t].pc =
                      IF threads[t].pc = "lock" THEN "check" ELSE "discard"]
    /\ UNCHANGED <<loop_vars, call, parser, fed, outs, display, feature, ACTIVE_ROOTS, tool_calls>>

\* an acquire_root_lock that adds the root without looking
CheckAndAdd_blind(t) ==
    /\ threads[t].pc = "check"
    /\ ACTIVE_ROOTS' = [ACTIVE_ROOTS EXCEPT ![ProcOf(t)] = @ \cup {threads[t].root}]
    /\ threads' = [threads EXCEPT ![t].pc = "added"]
    /\ UNCHANGED <<loop_vars, call, parser, fed, outs, display, feature, LOCK, tool_calls>>

\* locks.py 19-21: raise when the root is active, else add it
CheckAndAdd(t) ==
    /\ threads[t].pc = "check"
    /\ IF threads[t].root \in ACTIVE_ROOTS[ProcOf(t)]
       THEN /\ threads' = [threads EXCEPT ![t].pc = "raising"]
            /\ UNCHANGED ACTIVE_ROOTS
       ELSE /\ ACTIVE_ROOTS' = [ACTIVE_ROOTS EXCEPT ![ProcOf(t)] =
                                   @ \cup {threads[t].root}]
            /\ threads' = [threads EXCEPT ![t].pc = "added"]
    /\ UNCHANGED <<loop_vars, call, parser, fed, outs, display, feature, LOCK, tool_calls>>

\* a release that is skipped when the body ended by an exception
Discard_on_return(t) ==
    /\ threads[t].pc = "discard"
    /\ ACTIVE_ROOTS' = [ACTIVE_ROOTS EXCEPT ![ProcOf(t)] =
                            IF threads[t].exc THEN @ ELSE @ \ {threads[t].root}]
    /\ threads' = [threads EXCEPT ![t].pc = "discarded"]
    /\ UNCHANGED <<loop_vars, call, parser, fed, outs, display, feature, LOCK, tool_calls>>

\* locks.py 26: _ACTIVE_ROOTS.discard(normalized)
Discard(t) ==
    /\ threads[t].pc = "discard"
    /\ ACTIVE_ROOTS' = [ACTIVE_ROOTS EXCEPT ![ProcOf(t)] = @ \ {threads[t].root}]
    /\ threads' = [threads EXCEPT ![t].pc = "discarded"]
    /\ UNCHANGED <<loop_vars, call, parser, fed, outs, display, feature, LOCK, tool_calls>>

\* the end of a with _LOCK block: the body is entered, RuntimeError
\* propagates to the caller, or the context manager is left, the body's
\* exception propagating when there is one
ReleaseLock(t) ==
    /\ threads[t].pc \in {"added", "raising", "discarded"}
    /\ LOCK[ProcOf(t)] = t
    /\ LOCK' = [LOCK EXCEPT ![ProcOf(t)] = 0]
    /\ threads' = [threads EXCEPT ![t] =
                      CASE threads[t].pc = "added" -> [@ EXCEPT !.pc = "held"]
                        [] threads[t].pc = "raising" -> [@ EXCEPT !.pc = "raised"]
                        [] OTHER -> IF @.exc THEN [@ EXCEPT !.pc = "propagating"]
                                    ELSE IdleThread]
    /\ UNCHANGED <<loop_vars, call, parser, fed, outs, display, feature, ACTIVE_ROOTS, tool_calls>>

\* the caller has seen the RuntimeError, or the body's exception
Raised(t) ==
    /\ threads[t].pc \in {"raised", "propagating"}
    /\ threads' = [threads EXCEPT ![t] = IdleThread]
    /\ UNCHANGED <<loop_vars, call, parser, fed, outs, display, feature, LOCK, ACTIVE_ROOTS,
                   tool_calls>>

\* the body of the with statement ends (the server stops), by returning or
\* by an exception: finally
Leave(t) ==
    /\ threads[t].pc = "held"
    /\ \A c \in CallSlots : tool_calls[t][c] = ""
    /\ \E exc \in BOOLEAN :
          threads' = [threads EXCEPT ![t].pc = "finally", ![t].exc = exc]
    /\ UNCHANGED <<loop_vars, call, parser, fed, outs, display, feature, LOCK, ACTIVE_ROOTS,
                   tool_calls>>

\* mcp/server.py 83-94 with runner.run 54-64: the server running in the body
\* of the lock dispatches a ralph.run or ralph.understand call to a worker
\* thread, which resolves inputs.root and calls run_loop on it
ToolCallStart(t) ==
    /\ threads[t].pc = "held"
    /\ \E c \in CallSlots, path \in RootPaths :
          /\ tool_calls[t][c] = ""
          /\ tool_calls' = [tool_calls EXCEPT ![t][c] = resolve(path)]
    /\ UNCHANGED <<loop_vars, call, parser, fed, outs, display, feature, LOCK, ACTIVE_ROOTS,
                   threads>>

\* run_loop returns and the tool call is answered
ToolCallEnd(t) ==
    /\ \E c \in CallSlots :
          /\ tool_calls[t][c] # ""
          /\ tool_calls' = [tool_calls EXCEPT ![t][c] = ""]
    /\ UNCHANGED <<loop_vars, call, parser, fed, outs, display, feature, LOCK, ACTIVE_ROOTS,
                   threads>>

LockNext ==
    \E t \in Threads :
        \/ AcquireCall(t)
        \/ TakeLock(t)
        \/ CheckAndAdd(t)
        \/ Discard(t)
        \/ ReleaseLock(t)
        \/ Raised(t)
        \/ Leave(t)
        \/ ToolCallStart(t)
        \/ ToolCallEnd(t)

LockSpec == LockInit /\ [][LockNext]_vars

----------------------------------------------------------------------------
(***************************************************************************)
(* The feature command: ralph_py/cli.py feature.  It runs run_loop for the *)
(* understanding phase, asks for the review, runs it for the               *)
(* implementation phase and then for up to repair_max_runs repairs.  Each  *)
(* run_loop call is one step that returns any result run_loop can return   *)
(* for its max_iterations.                                                 *)
(***************************************************************************)
\* most repair runs configured
MaxRepairs == 2

\* the results run_loop can return when called with max_iterations n:
\* completion or Quit at an iteration, a guardrail failure at an iteration,
\* exhaustion, and a missing prompt or a failed checkout
RunLoopResults(n) ==
    {LoopResult(TRUE, k, 0) : k \in 1..n}
        \cup {LoopResult(FALSE, k, 0) : k \in 1..n}
        \cup {LoopResult(FALSE, k, 1) : k \in 1..n}
        \cup {LoopResult(FALSE, Max({n, 0}), 1), LoopResult(FALSE, 0, 1)}

\* loops: the run_loop calls made, in order, each with its phase and result;
\* gate: what the review gate did; exit: the code given to sys.exit
FeatureInit ==
    /\ LoopInit(IdleScenario)
    /\ call = None
    /\ parser = None
    /\ fed = <<>>
    /\ outs = <<>>
    /\ LockIdle
    /\ display = None
    /\ \E repair_max_runs \in (0 - 1)..MaxRepairs,
          implementation_auto_run \in BOOLEAN, can_prompt \in BOOLEAN,
          understand_iterations \in 0..1, user_stories \in 0..1,
          repair_iterations \in 0..1 :
            feature = Some([pc |-> "entry",
                            repair_max_runs |-> repair_max_runs,
                            implementation_auto_run |-> implementation_auto_run,
                            can_prompt |-> can_prompt,
                            understand_iterations |-> understand_iterations,
                            user_stories |-> user_stories,
                            repair_iterations |-> repair_iterations,
                            attempt |-> 0,
                            loops |-> <<>>,
                            gate |-> "",
                            exit |-> None])

\* sys.exit(code)
SysExit(f, code) == [f EXCEPT !.pc = "exited", !.exit = Some(code)]

\* cli.py 676-680: a negative REPAIR_MAX_RUNS is refused
FeatureEntry ==
    /\ feature # None
    /\ feature[1].pc = "entry"
    /\ feature' = Some(IF feature[1].repair_max_runs < 0
                       THEN SysExit(feature[1], 2)
                       ELSE [feature[1] EXCEPT !.pc = "understand"])
    /\ UNCHANGED <<loop_vars, call, parser, fed, outs, lock_vars, display>>

\* cli.py 789-809: the understanding loop
UnderstandLoop ==
    /\ feature # None
    /\ feature[1].pc = "understand"
    /\ \E understand_result \in RunLoopResults(feature[1].understand_iterations) :
        LET f == [feature[1] EXCEPT !.loops =
                     Append(@, [phase |-> "understand", result |-> understand_result])]
        IN  feature' = Some(IF understand_result.exit_code # 0
                            THEN SysExit(f, understand_result.exit_code)
                            ELSE [f EXCEPT !.pc = "gate"])
    /\ UNCHANGED <<loop_vars, call, parser, fed, outs, lock_vars, display>>

\* cli.py 811-830: the review gate
ReviewGate ==
    /\ feature # None
    /\ feature[1].pc = "gate"
    /\ IF feature[1].implementation_auto_run
       THEN feature' = Some([feature[1] EXCEPT !.pc = "run", !.gate = "skipped"])
       ELSE IF ~feature[1].can_prompt
       THEN feature' = Some(SysExit([feature[1] EXCEPT !.gate = "required"], 2))
       ELSE \E choice \in {0, 1} :
               feature' = Some(IF choice # 0
                               THEN SysExit([feature[1] EXCEPT !.gate = "quit"], 0)
                               ELSE [feature[1] EXCEPT !.pc = "run",
                                                       !.gate = "start"])
    /\ UNCHANGED <<loop_vars, call, parser, fed, outs, lock_vars, display>>

\* an implementation phase that goes on to the repairs although no
\* iteration was executed
Implementation_unrun ==
    /\ feature # None
    /\ feature[1].pc = "run"
    /\ IF feature[1].user_stories = 0
       THEN feature' = Some(SysExit(feature[1], 0))
       ELSE \E run_result \in RunLoopResults(feature[1].user_stories) :
               LET f == [feature[1] EXCEPT !.loops =
                            Append(@, [phase |-> "run", result |-> run_result])]
               IN  feature' = Some(IF \/ run_result.exit_code = 0
                                      \/ f.repair_max_runs = 0
                                   THEN SysExit(f, run_result.exit_code)
                                   ELSE [f EXCEPT !.pc = "repair", !.attempt = 1])
    /\ UNCHANGED <<loop_vars, call, parser, fed, outs, lock_vars, display>>

\* cli.py 832-850: the implementation loop, one iteration per user story
Implementation ==
    /\ feature # None
    /\ feature[1].pc = "run"
    /\ IF feature[1].user_stories = 0
       THEN feature' = Some(SysExit(feature[1], 0))
       ELSE \E run_result \in RunLoopResults(feature[1].user_stories) :
               LET f == [feature[1] EXCEPT !.loops =
                            Append(@, [phase |-> "run", result |-> run_result])]
               IN  feature' = Some(IF \/ run_result.exit_code = 0
                                      \/ f.repair_max_runs = 0
                                      \/ run_result.iterations = 0
                                   THEN SysExit(f, run_result.exit_code)
                                   ELSE [f EXCEPT !.pc = "repair", !.attempt = 1])
    /\ UNCHANGED <<loop_vars, call, parser, fed, outs, lock_vars, display>>

\* cli.py 852-877: one pass of the repair loop, and the exit after the last
RepairLoop ==
    /\ feature # None
    /\ feature[1].pc = "repair"
    /\ feature[1].attempt <= feature[1].repair_max_runs
    /\ \E repair_result \in RunLoopResults(feature[1].repair_iterations) :
        LET f == [feature[1] EXCEPT !.loops =
                     Append(@, [phase |-> "repair", result |-> repair_result])]
        IN  feature' = Some(IF repair_result.exit_code = 0
                            THEN SysExit(f, 0)
                            ELSE IF f.attempt = f.repair_max_runs
                            THEN SysExit(f, repair_result.exit_code)
                            ELSE [f EXCEPT !.attempt = @ + 1])
    /\ UNCHANGED <<loop_vars, call, parser, fed, outs, lock_vars, display>>

FeatureNext ==
    \/ FeatureEntry
    \/ UnderstandLoop
    \/ ReviewGate
    \/ Implementation
    \/ RepairLoop

FeatureSpec == FeatureInit /\ [][FeatureNext]_vars

----------------------------------------------------------------------------
(***************************************************************************)
(* One iteration of run_loop with a Codex agent, as the output sink sees   *)
(* it: loop.py 324-527.  The display settings are those of the             *)
(* configuration; the raw lines are routed one by one through the          *)
(* completion parser and, unless ai_raw, through the display parser, into  *)
(* the stream, the buffer, the tool summaries and the session notes; the   *)
(* end of the stream renders the panels.  The token "H" is a tool header   *)
(* line such as "... -lc x in /r succeeded in 1s".                         *)
(***************************************************************************)
\* most raw lines of the iteration
MaxShown == 4

\* loop.py 345
buffer_limit == 80

L_tool == <<"tool">>
L_header == <<"H">>
L_kv == <<"model", ":", " ", "x">>

\* the raw lines the agent may print
ShownLines == {L_user, L_assistant, L_tool, L_text, L_marker, L_header, L_kv}

\* TOOL_HEADER_RE.search(text)
TOOL_HEADER_RE(text) == \E i \in 1..Len(text) : text[i] = "H"

ToolSummary(command, status, duration) ==
    [command |-> command, status |-> status, duration |-> duration,
     output_lines |-> 0]

\* _parse_tool_header
parse_tool_header(line) ==
    IF TOOL_HEADER_RE(line)
    THEN ToolSummary(<<"x">>, "ok", Some("1s"))
    ELSE ToolSummary(Strip(line), "unknown", None)

SYS_KV_KEYS == {"workdir", "model", "provider", "approval", "sandbox"}

\* _extract_sys_kv: key, colon, whitespace, value
extract_sys_kv(line) ==
    IF /\ Len(line) >= 4
       /\ line[2] = ":"
       /\ IsSpace(line[3])
       /\ Strip(SubSeq(line, 4, Len(line))) # <<>>
       /\ LowerTok(line[1]) \in SYS_KV_KEYS
    THEN Some(<<line[1], Strip(SubSeq(line, 4, Len(line)))>>)
    ELSE None

\* _normalize_plan_line, for lines without list or emphasis marks
normalize_plan_line(text) == Strip(text)

\* _looks_like_plan_line: the line starts with one of PLAN_PREFIXES
looks_like_plan_line(text) ==
    normalize_plan_line(text) # <<>> /\ LowerTok(Head(normalize_plan_line(text))) = "plan:"

\* _extract_heading: a "#" heading
extract_heading(text) ==
    IF Len(Strip(text)) >= 3 /\ Head(Strip(text)) = "#" /\ IsSpace(Strip(text)[2])
    THEN Some(Strip(SubSeq(Strip(text), 3, Len(Strip(text)))))
    ELSE None

\* ui.panel(tag, title, lines)
Panel(tag, title, lines) == [tag |-> tag, title |-> title, lines |-> lines]

\* _render_callout: no panel without lines
render_callout(d, tag, title, lines) ==
    IF lines = <<>> THEN d ELSE [d EXCEPT !.panels = Append(@, Panel(tag, title, lines))]

\* _merge_plan_lines
merge_plan_lines(headings, plan_lines) ==
    LET rest == SelectSeq(plan_lines, LAMBDA x : x \notin Range(headings))
    IN  IF headings \o rest = <<>> THEN << <<"(no explicit plan detected)">> >>
        ELSE headings \o rest

\* the settings of the configuration that bear on the display
DisplaySettings ==
    [ai_raw : BOOLEAN,
     ai_show_prompt : BOOLEAN,
     ai_prompt_progress_every : {0, 1},
     ai_tool_mode : {"summary", "full", "none"},
     ai_sys_mode : {"summary", "full"},
     ai_show_final : BOOLEAN]

\* loop.py 326-359: the state of an iteration before the first line.
\* routed and opened are history: the tagged lines the display parser has
\* returned, in order, and the places in routed at which a tool summary was
\* opened.
IterationStart(cfg, k) ==
    [config |-> cfg,
     iteration |-> k,
     output_lines |-> <<>>,
     parsed_lines |-> <<>>,
     tool_summaries |-> <<>>,
     sys_info |-> <<>>,
     sys_notes |-> <<>>,
     prompt_note |-> None,
     active_tool |-> None,
     active_tool_lines |-> 0,
     parser |-> IF cfg.ai_raw THEN None
                ELSE Some(CodexTranscriptParser(PromptLines, cfg.ai_show_prompt)),
     completion_parser |-> CodexTranscriptParser(PromptLines, TRUE),
     last_ai_line |-> None,
     streaming_started |-> FALSE,
     plan_rendered |-> FALSE,
     buffered_lines |-> <<>>,
     plan_headings |-> <<>>,
     plan_candidates |-> <<>>,
     streamed |-> <<>>,
     panels |-> <<>>,
     routed |-> <<>>,
     opened |-> <<>>,
     final_message |-> None,
     completion_seen |-> FALSE,
     ended |-> FALSE]

\* loop.py 361-373
start_streaming(d, render_plan) ==
    IF d.streaming_started THEN d
    ELSE LET d1 == IF render_plan /\ ~d.plan_rendered
                   THEN [render_callout(d, "PLAN", "Iteration intent",
                                        merge_plan_lines(d.plan_headings,
                                                         d.plan_candidates))
                            EXCEPT !.plan_rendered = TRUE]
                   ELSE d
         IN  [d1 EXCEPT !.streamed = @ \o d1.buffered_lines,
                        !.buffered_lines = <<>>,
                        !.streaming_started = TRUE]

\* loop.py 375-379
emit_line(d, tagged) ==
    IF d.streaming_started
    THEN [d EXCEPT !.streamed = Append(@, tagged)]
    ELSE [d EXCEPT !.buffered_lines = Append(@, tagged)]

\* loop.py 381-390
collect_plan_candidates(d, tag, text) ==
    IF tag \notin {"AI", "THINK"} THEN d
    ELSE LET heading == extract_heading(text)
             d1 == IF heading # None /\ heading[1] # <<>>
                      /\ heading[1] \notin Range(d.plan_headings)
                   THEN [d EXCEPT !.plan_headings = Append(@, heading[1])]
                   ELSE d
         IN  IF /\ looks_like_plan_line(text)
                /\ normalize_plan_line(text) \notin Range(d1.plan_candidates)
             THEN [d1 EXCEPT !.plan_candidates = Append(@, normalize_plan_line(text))]
             ELSE d1

\* a flush that drops the summary it closes
flush_tool_dropping(d) ==
    IF d.active_tool = None THEN d
    ELSE [d EXCEPT !.active_tool = None, !.active_tool_lines = 0]

\* loop.py 392-401
flush_tool(d) ==
    IF d.active_tool = None THEN d
    ELSE [d EXCEPT !.tool_summaries =
                       Append(@, [d.active_tool[1] EXCEPT
                                     !.output_lines = d.active_tool_lines]),
                   !.active_tool = None,
                   !.active_tool_lines = 0]

\* loop.py 423-424, 428-429: a summary is opened for the tool line just
\* routed
open_tool(d, text) ==
    [d EXCEPT !.active_tool = Some(parse_tool_header(text)),
              !.active_tool_lines = 0,
              !.opened = Append(@, Len(d.routed))]

\* loop.py 412-418, 458-466: a line that goes to the stream
show_line(d, tagged) ==
    LET d1 == collect_plan_candidates(
                  [d EXCEPT !.parsed_lines = Append(@, tagged)],
                  tagged.tag, tagged.text)
        d2 == IF d1.streaming_started THEN d1
              ELSE IF d1.plan_headings # <<>> \/ d1.plan_candidates # <<>>
              THEN start_streaming(d1, TRUE)
              ELSE IF Len(d1.buffered_lines) >= buffer_limit
              THEN start_streaming(d1, FALSE)
              ELSE d1
    IN  emit_line(d2, tagged)

\* sys_info[key] = value
set_sys_info(info, kv) ==
    IF \E i \in 1..Len(info) : info[i][1] = kv[1]
    THEN [i \in 1..Len(info) |-> IF info[i][1] = kv[1] THEN kv ELSE info[i]]
    ELSE Append(info, kv)

\* loop.py 445-457: a system or prompt line under ai_sys_mode "summary"
summarize_sys(d, parsed) ==
    LET sys_kv == IF parsed.tag = "SYS" THEN extract_sys_kv(parsed.text) ELSE None
        note == [parsed EXCEPT !.text = Strip(parsed.text)]
    IN  IF sys_kv # None
        THEN [d EXCEPT !.sys_info = set_sys_info(@, sys_kv[1])]
        ELSE IF note.text = <<>> THEN d
        ELSE IF parsed.tag = "PROMPT"
        THEN [d EXCEPT !.prompt_note = Some(note)]
        ELSE [d EXCEPT !.sys_notes = Append(@, note)]

\* loop.py 420-466: one tagged line of the display parser
route(d0, parsed) ==
    LET d == [d0 EXCEPT !.routed = Append(@, parsed)]
    IN  IF parsed.tag = "TOOL"
        THEN LET d1 == IF d.active_tool = None THEN open_tool(d, parsed.text)
                       ELSE IF TOOL_HEADER_RE(parsed.text)
                       THEN open_tool(flush_tool(d), parsed.text)
                       ELSE [d EXCEPT !.active_tool_lines = @ + 1]
                 d2 == IF d.config.ai_tool_mode = "full"
                       THEN emit_line(d1, parsed) ELSE d1
             IN  IF ~d2.streaming_started /\ ~d2.plan_rendered
                 THEN start_streaming(d2, FALSE) ELSE d2
        ELSE LET d1 == flush_tool(d)
             IN  IF parsed.tag \in {"SYS", "PROMPT"} /\ d.config.ai_sys_mode = "summary"
                 THEN summarize_sys(d1, parsed)
                 ELSE show_line(d1, parsed)

\* for parsed in parser.feed(line)
RECURSIVE route_all(_, _)
route_all(d, parsed) ==
    IF parsed = <<>> THEN d ELSE route_all(route(d, Head(parsed)), Tail(parsed))

\* a loop that reads the last assistant line off the display parser
display_line_one_parser(d, line) ==
    LET d1 == [d EXCEPT !.output_lines = Append(@, line)]
    IN  IF d1.parser = None
        THEN show_line(d1, TranscriptLine("AI", line))
        ELSE LET f == feed(d1.parser[1], line, PromptLines,
                           d.config.ai_show_prompt,
                           d.config.ai_prompt_progress_every)
             IN  route_all([d1 EXCEPT !.parser = Some(f.p),
                                      !.last_ai_line = scan_ai(@, f.out)], f.out)

\* loop.py 403-466: one raw line of the agent
display_line(d, line) ==
    LET c == feed(d.completion_parser, line, PromptLines, TRUE, 0)
        d1 == [d EXCEPT !.output_lines = Append(@, line),
                        !.completion_parser = c.p,
                        !.last_ai_line = scan_ai(@, c.out)]
    IN  IF d1.parser = None
        THEN show_line(d1, TranscriptLine("AI", line))
        ELSE LET f == feed(d1.parser[1], line, PromptLines,
                           d.config.ai_show_prompt,
                           d.config.ai_prompt_progress_every)
             IN  route_all([d1 EXCEPT !.parser = Some(f.p)], f.out)

\* loop.py 489-498: the Session info panel
session_info(d) ==
    IF /\ d.parser # None
       /\ (d.sys_info # <<>> \/ d.sys_notes # <<>>)
       /\ d.config.ai_sys_mode = "summary"
       /\ d.iteration = 1
    THEN LET notes == IF d.prompt_note # None
                      THEN <<[d.prompt_note[1] EXCEPT !.tag = "Prompt"]>> \o d.sys_notes
                      ELSE d.sys_notes
         IN  render_callout([d EXCEPT !.sys_notes = notes], "SYS", "Session info",
                            d.sys_info \o notes)
    ELSE d

\* loop.py 500-512: the plan panel when none was rendered, and the Tool
\* activity panel
plan_and_tools(d) ==
    LET d1 == IF d.plan_rendered THEN d
              ELSE render_callout(d, "PLAN", "Iteration intent",
                                  merge_plan_lines(d.plan_headings, d.plan_candidates))
        tool_lines == IF d.tool_summaries # <<>> /\ d.config.ai_tool_mode = "summary"
                      THEN d.tool_summaries
                      ELSE IF d.config.ai_tool_mode # "none"
                      THEN << <<"(no tool calls detected)">> >>
                      ELSE <<>>
    IN  render_callout(d1, "ACTIONS", "Tool activity", tool_lines)

\* loop.py 514-527: the Completion report panel and the final message
report_and_final(d) ==
    LET d1 == render_callout(d, "REPORT", "Completion report",
                             <<d.completion_seen>>)
    IN  IF d.config.ai_show_final /\ d.final_message # None /\ d.final_message[1] # <<>>
        THEN [d1 EXCEPT !.streamed = Append(@, TranscriptLine("AI", d.final_message[1]))]
        ELSE d1

\* loop.py 468-527: the stream has ended and the agent has set its final
\* message
display_end(d, final) ==
    LET d1 == flush_tool(d)
        d2 == start_streaming(d1, FALSE)
        d3 == [d2 EXCEPT !.final_message = final,
                         !.completion_seen =
                             detect_completion(TRUE, final, d.last_ai_line,
                                               d.output_lines),
                         !.ended = TRUE]
    IN  report_and_final(plan_and_tools(session_info(d3)))

\* codex.py 72-79: the last line with text the agent has yielded
RECURSIVE last_non_empty_line(_)
last_non_empty_line(lines) ==
    IF lines = <<>> THEN None
    ELSE agent_remember("codex",
                        last_non_empty_line(SubSeq(lines, 1, Len(lines) - 1)),
                        lines[Len(lines)])

DisplayInit ==
    /\ LoopInit(IdleScenario)
    /\ call = None
    /\ parser = None
    /\ fed = <<>>
    /\ outs = <<>>
    /\ LockIdle
    /\ feature = None
    /\ \E cfg \in DisplaySettings, k \in 1..MaxIter :
          display = Some(IterationStart(cfg, k))

\* for line in agent.run(prompt, cwd)
DisplayLine ==
    /\ display # None
    /\ ~display[1].ended
    /\ Len(display[1].output_lines) < MaxShown
    /\ \E line \in ShownLines : display' = Some(display_line(display[1], line))
    /\ UNCHANGED <<loop_vars, call, parser, fed, outs, lock_vars, feature>>

\* the agent's stream ends; the codex process has written its last message
\* or not
DisplayEnd ==
    /\ display # None
    /\ ~display[1].ended
    /\ \E written \in {<<>>, L_marker_text} :
          display' = Some(display_end(display[1],
                              codex_final_message(TRUE, written,
                                  last_non_empty_line(display[1].output_lines),
                                  None)))
    /\ UNCHANGED <<loop_vars, call, parser, fed, outs, lock_vars, feature>>

DisplayNext == DisplayLine \/ DisplayEnd

DisplaySpec == DisplayInit /\ [][DisplayNext]_vars

----------------------------------------------------------------------------
(***************************************************************************)
(* Properties.                                                             *)
(*                                                                         *)
(* Decided: the current iteration has evaluated its completion rules, so   *)
(* output_lines, final_message and completion_seen are those of iteration  *)
(* `iteration`.  Returned: run_loop has returned its LoopResult.  A        *)
(* callback that raises leaves run_loop by an exception (pc = "raised"),   *)
(* without a LoopResult; statements about what run_loop returns are about  *)
(* runs that return.                                                       *)
(***************************************************************************)
Decided == iteration >= 1 /\ pc \notin {"agent", "decide"}
Returned == pc = "done" /\ result # None
IsCodex == world.agent = "codex"

\* C1: with the Codex agent, when the marker occurs in an iteration's output
\* but not as the last non-empty line of the assistant channel, run_loop
\* declares no completion for that iteration.
C1_MarkerElsewhereNeverCompletes ==
    (/\ Decided
     /\ IsCodex
     /\ MarkerOccurs(output_lines)
     /\ LastAssistantLine(output_lines) # Some(COMPLETION_MARKER))
    => /\ ~completion_seen
       /\ (Returned => ~result[1].completed)

\* C2: with the Codex agent, when the last non-empty assistant-channel line
\* of iteration k is exactly the marker, whatever lines of other channels
\* follow it, completion is detected and run_loop returns completed=True,
\* exit_code=0, iterations=k at that iteration, with no further agent call.
C2_CodexMarkerLastCompletes ==
    (/\ Decided
     /\ IsCodex
     /\ LastAssistantLine(output_lines) = Some(COMPLETION_MARKER))
    => /\ completion_seen
       /\ agent_calls = iteration
       /\ pc \in {"callback", "check", "raised", "done"}
       /\ pc = "done" => result = Some(LoopResult(TRUE, iteration, 0))

\* C2 witness: the marker is the last assistant line, a system channel with
\* text follows, the final message does not carry the marker, and run_loop
\* has returned completion.
C2_Witness ==
    /\ Returned
    /\ IsCodex
    /\ output_lines = <<L_assistant, L_marker, L_system, L_text>>
    /\ final_message = Some(L_text)
    /\ result = Some(LoopResult(TRUE, 1, 0))

\* the three completion rules in their priority order
ThreeRules ==
    IF final_message # None /\ final_message[1] # <<>>
       /\ ContainsMarker(final_message[1])
    THEN TRUE
    ELSE IF IsCodex
    THEN LastAssistantLine(output_lines) = Some(COMPLETION_MARKER)
    ELSE LastNonEmptyLine(output_lines) = COMPLETION_MARKER

\* C4: completion is detected in an iteration exactly when the first
\* applicable rule holds: the final message is available and contains the
\* marker; otherwise, for Codex, the last non-empty assistant-channel line
\* equals the marker; otherwise the last non-empty raw line equals it.
C4_CompletionRules == Decided => (completion_seen <=> ThreeRules)

\* C4 witness: the second rule decides against a raw last line that is the
\* marker: Codex, a final message without the marker, the marker as the last
\* raw line but on the system channel, no completion.
C4_Witness ==
    /\ Decided
    /\ IsCodex
    /\ final_message = Some(L_text)
    /\ output_lines = <<L_assistant, L_text, L_system, L_marker>>
    /\ ~completion_seen

\* C5: with a plain agent, completion is detected only when the last
\* non-empty line of the output is exactly the marker; a marker in the
\* middle of the output or inside a line with other text never completes.
C5_PlainAgentExactLastLine ==
    (Decided /\ ~IsCodex /\ completion_seen)
    => LastNonEmptyLine(output_lines) = COMPLETION_MARKER

\* the changed files of a tree that no entry of the allow-list admits
ViolatingFiles(g, allowed_paths) ==
    {f \in get_changed_files(g) : ~path_is_allowed(f, allowed_paths)}

\* this iteration stopped at the guardrail
GuardFailed == guard.ran /\ ~guard.ok

\* C3 as stated: if no iteration ends its output with the exact marker as
\* last non-empty relevant line, run_loop invokes the agent exactly
\* max_iterations times and returns completed=False, exit_code=1,
\* iterations=max_iterations.
C3_NoMarkerRunsAllIterations ==
    (Returned /\ ~emitted.exact)
    => /\ agent_calls = config.max_iterations
       /\ result = Some(LoopResult(FALSE, config.max_iterations, 1))

\* C3 amended: if the prompt file exists, the branch checkout does not fail,
\* no iteration is stopped by a guardrail failure or a Quit at the pause, and
\* no iteration ends its output with the exact marker or has a final message
\* containing the marker, then run_loop, when it returns, has invoked the
\* agent exactly max_iterations times and returns completed=False,
\* exit_code=1, iterations=max_iterations.
C3_UnstoppedRunExhausts ==
    (/\ Returned
     /\ world.prompt_exists
     /\ checkout # "failed"
     /\ ~GuardFailed
     /\ pause_choice # 2
     /\ ~emitted.exact
     /\ ~emitted.final)
    => /\ agent_calls = config.max_iterations
       /\ result = Some(LoopResult(FALSE, config.max_iterations, 1))

\* C3 witness: two iterations ran, the last one printed the marker but not
\* as its last line, and run_loop returned exhaustion.
C3_Witness ==
    /\ Returned
    /\ config.max_iterations >= 2
    /\ agent_calls = config.max_iterations
    /\ MarkerOccurs(output_lines)
    /\ ~emitted.exact
    /\ ~emitted.final
    /\ result = Some(LoopResult(FALSE, config.max_iterations, 1))

C7_ExitCode ==
    Returned =>
        /\ result[1].exit_code \in {0, 1}
        /\ (result[1].exit_code = 0) <=> (completion_seen \/ pause_choice = 2)
        /\ GuardFailed => result[1].exit_code = 1
        /\ ~world.prompt_exists => result[1].exit_code = 1
        /\ checkout = "failed" => result[1].exit_code = 1

\* C7 witness: Quit at the pause returned exit_code 0 without completion
C7_Witness ==
    /\ Returned
    /\ pause_choice = 2
    /\ ~completion_seen
    /\ result = Some(LoopResult(FALSE, iteration, 0))

\* C8: non-interactive, with a non-empty allow-list in a git repository,
\* when the guardrail of iteration k finds a changed file outside the
\* allow-list, run_loop has stopped at k with completed=False, exit_code=1,
\* iterations=k, and the agent is not invoked for iteration k+1.
C8_NonInteractiveViolationStops ==
    (/\ guard.ran
     /\ ~guard.interactive
     /\ config.allowed_paths # <<>>
     /\ is_repo
     /\ ViolatingFiles(git, config.allowed_paths) # {})
    => /\ pc = "done"
       /\ result = Some(LoopResult(FALSE, iteration, 1))
       /\ agent_calls = iteration
       /\ ~completion_seen

\* C8 witness: the first of two iterations left a violating file and
\* run_loop stopped there
C8_Witness ==
    /\ Returned
    /\ guard.ran
    /\ ~guard.interactive
    /\ ViolatingFiles(git, config.allowed_paths) # {}
    /\ config.max_iterations = 2
    /\ iteration = 1
    /\ agent_calls = 1

\* the guardrail is about to run on a tree with violations
GuardFindsViolations ==
    /\ pc = "guard"
    /\ config.allowed_paths # <<>>
    /\ is_repo
    /\ ViolatingFiles(git, config.allowed_paths) # {}

\* C9: when enforce_allowed_paths finds a violation it passes only in
\* interactive mode with a UI that can prompt and a choice of Revert or
\* Continue anyway; non-interactive, without prompting ability, or on Quit it
\* fails with the violation list; in the first two cases it solicits no
\* choice; and failing modifies no file.
C9_GuardDecision ==
    [][GuardFindsViolations =>
        /\ guard'.ran
        /\ guard'.ok => /\ config.interactive
                        /\ world.can_prompt
                        /\ guard'.asked
                        /\ guard'.choice \in {1, 2}
        /\ (~config.interactive \/ ~world.can_prompt)
              => (~guard'.ok /\ ~guard'.asked)
        /\ guard'.choice = 0 => ~guard'.ok
        /\ ~guard'.ok =>
              /\ Range(guard'.violations)
                    = ViolatingFiles(git, config.allowed_paths)
              /\ git' = git
    ]_vars

\* C9 witness: interactive with a prompting UI, the human chose Quit: the
\* guardrail failed with the violations and the tree as the agent left it
C9_Witness ==
    /\ guard.ran
    /\ guard.interactive
    /\ guard.asked
    /\ guard.choice = 0
    /\ ~guard.ok
    /\ Range(guard.violations) = ViolatingFiles(git, config.allowed_paths)
    /\ guard.violations # <<>>

\* C10: when the human chooses Revert, every violating path that is tracked
\* is restored to its last-committed state, every violating path that is
\* untracked is deleted, no allowed changed path is touched, the guardrail
\* passes with an empty violation list, and afterwards the working tree has
\* no changed file outside the allow-list.
C10_RevertCleansViolations ==
    [][(GuardFindsViolations /\ guard'.asked /\ guard'.choice = 1) =>
        LET V == ViolatingFiles(git, config.allowed_paths)
        IN  /\ \A f \in V :
                  IF is_file_tracked(git, f)
                  THEN git'.index[f] = git.head[f] /\ git'.work[f] = git.head[f]
                  ELSE git'.work[f] = 0
            /\ \A f \in Paths \ V :
                  git'.index[f] = git.index[f] /\ git'.work[f] = git.work[f]
            /\ git'.head = git.head
            /\ guard'.ok
            /\ guard'.violations = <<>>
            /\ ViolatingFiles(git', config.allowed_paths) = {}
    ]_vars

\* C14: when the prompt file does not exist, run_loop emits one error
\* through the sink and returns completed=False, iterations=0, exit_code=1
\* with no agent invocation, no branch checkout and no guardrail check.
C14_MissingPrompt ==
    (~world.prompt_exists /\ pc # "start")
    => /\ Returned
       /\ result = Some(LoopResult(FALSE, 0, 1))
       /\ ui_err = <<"prompt file not found">>
       /\ agent_calls = 0
       /\ alive = 0
       /\ checkout = "none"
       /\ ~guard.ran
       /\ steps = <<>>

\* C14 witness: the prompt is missing in a repository with a branch
\* configured, and run_loop has returned
C14_Witness ==
    /\ Returned
    /\ ~world.prompt_exists
    /\ git.repo
    /\ config.ralph_branch = Some("feature")
    /\ config.max_iterations >= 1

\* the place of a step in an iteration
Rank(step) ==
    CASE step = "agent" -> 1
      [] step = "decide" -> 2
      [] step = "guard" -> 3
      [] step = "pause" -> 4
      [] step = "sleep" -> 5

\* this iteration has done step
Did(step) == \E i \in 1..Len(steps) : steps[i] = step

\* C15: the steps of an iteration happen in the order agent output consumed,
\* completion decision, guardrail, interactive pause, sleep; the guardrail
\* only without completion, with a non-empty allow-list, in a repository;
\* the pause only after a guardrail that did not fail; the sleep only when
\* iterations remain; and an iteration that detects completion returns
\* completed=True, exit_code=0 with no guardrail, no pause and no sleep.
C15_StepOrder ==
    /\ \A i, j \in 1..Len(steps) : i < j => Rank(steps[i]) < Rank(steps[j])
    /\ steps # <<>> => steps[1] = "agent"
    /\ Len(steps) >= 2 => steps[2] = "decide"
    /\ Did("guard") => /\ ~completion_seen
                       /\ config.allowed_paths # <<>>
                       /\ is_repo
                       /\ guard.ran
    /\ Did("pause") => ~completion_seen /\ ~GuardFailed
    /\ Did("sleep") => /\ ~completion_seen
                       /\ ~GuardFailed
                       /\ pause_choice # 2
                       /\ iteration < config.max_iterations
    /\ (pc \in {"pause", "sleep"} /\ config.allowed_paths # <<>> /\ is_repo)
          => Did("guard")
    /\ (Decided /\ completion_seen) =>
          /\ steps = <<"agent", "decide">>
          /\ Returned => result = Some(LoopResult(TRUE, iteration, 0))

\* C15 witness: an iteration that ran all five steps
C15_Witness ==
    /\ steps = <<"agent", "decide", "guard", "pause", "sleep">>
    /\ pc = "loop"

\* C16: at the pause of an iteration (no completion, no guardrail failure),
\* with the interactive flag set and a sink that can prompt, exactly one
\* choice among Continue, Skip interactive and Quit is solicited; Quit
\* returns completed=False, exit_code=0, iterations=k with no further agent
\* call; Continue and Skip go on to the next iteration, or to exhaustion when
\* none remains; with the flag unset or a sink that cannot prompt no choice
\* is solicited.
C16_InteractivePause ==
    [][/\ pc = "pause" =>
            /\ ~completion_seen /\ ~GuardFailed /\ ~Did("pause")
            /\ IF config.interactive /\ world.can_prompt
               THEN /\ pause_choice' \in 0..2
                    /\ steps' = Append(steps, "pause")
                    /\ pause_choice' = 2 =>
                          /\ pc' = "done"
                          /\ result' = Some(LoopResult(FALSE, iteration, 0))
                          /\ agent_calls' = agent_calls
                          /\ agent_calls = iteration
                    /\ pause_choice' \in {0, 1} => pc' = "sleep" /\ result' = None
               ELSE /\ pause_choice' = pause_choice
                    /\ pause_choice = 0 - 1
                    /\ steps' = steps
                    /\ pc' = "sleep"
       /\ pc = "sleep" => pc' = "loop" /\ iteration' = iteration
       /\ pc = "loop" =>
            IF iteration < config.max_iterations
            THEN iteration' = iteration + 1 /\ agent_calls' = agent_calls + 1
            ELSE result' = Some(LoopResult(FALSE, config.max_iterations, 1))
       /\ pc = "done" => FALSE
    ]_vars

\* C16 witness: Quit at the pause of the first of two iterations
C16_Witness ==
    /\ Returned
    /\ Did("pause")
    /\ pause_choice = 2
    /\ iteration = 1
    /\ config.max_iterations = 2
    /\ agent_calls = 1

\* a choice is solicited from the sink in this step
Solicits ==
    \/ pc = "pause" /\ steps' # steps
    \/ pc = "guard" /\ guard'.asked

\* C17: the only configuration field run_loop writes is the interactive
\* flag, only from true to false, and only when the human chooses "Skip
\* interactive"; after that write no choice is solicited from the sink,
\* neither at the pause nor by the guardrail, so a later guardrail violation
\* fails without arbitration.
C17_InteractiveFlag ==
    [][/\ config' # config =>
            /\ pc = "pause"
            /\ pause_choice' = 1
            /\ config.interactive
            /\ config' = [config EXCEPT !.interactive = FALSE]
       /\ (pc = "pause" /\ steps' # steps /\ pause_choice' = 1)
            => ~config'.interactive /\ skipped'
       /\ skipped =>
            /\ ~config.interactive
            /\ ~Solicits
            /\ GuardFindsViolations =>
                  /\ ~guard'.ok
                  /\ ~guard'.asked
                  /\ result' = Some(LoopResult(FALSE, iteration, 1))
    ]_vars

\* C17 witness: after Skip in the first iteration the second iteration's
\* guardrail found a violation and failed without asking
C17_Witness ==
    /\ skipped
    /\ iteration = 2
    /\ guard.ran
    /\ ~guard.ok
    /\ ~guard.asked
    /\ world.can_prompt
    /\ Returned

\* C18: at most one agent child process is alive; the process of iteration
\* k has been waited on before that iteration's completion decision and
\* guardrail run and before the process of iteration k+1 is spawned.
C18_OneChildProcess ==
    /\ alive \in {0, 1}
    /\ (alive = 1) <=> (pc = "agent")
    /\ pc \in {"decide", "callback", "check", "guard", "pause", "sleep", "loop"}
          => alive = 0
    /\ alive = 1 => agent_calls = iteration

\* C18 witness: the process of the second iteration is running
C18_Witness ==
    /\ pc = "agent"
    /\ iteration = 2
    /\ alive = 1
    /\ output_lines # <<>>

\* C11: an empty allow-list disables enforcement: no path is allowed by
\* it, yet check_violations reports nothing, enforce_allowed_paths passes
\* with no violations without reading the working tree or prompting, and
\* run_loop never runs the guardrail or stops for it.
C11_EmptyAllowListDisables ==
    config.allowed_paths = <<>> =>
        /\ \A p \in Paths : ~path_is_allowed(p, config.allowed_paths)
        /\ check_violations(IterationOrder(get_changed_files(git)),
                            config.allowed_paths) = <<>>
        /\ \A choice \in 0..2 :
              enforce_allowed_paths(config.interactive, config.allowed_paths,
                                    world.can_prompt, git, choice)
              = [ok |-> TRUE, violations |-> <<>>, git |-> git,
                 asked |-> FALSE, err |-> FALSE, read |-> FALSE]
        /\ ~guard.ran
        /\ ~Did("guard")
        /\ "disallowed file changes" \notin Range(ui_err)
        /\ (Returned /\ ~result[1].completed /\ result[1].exit_code = 1)
              => \/ ~world.prompt_exists
                 \/ checkout = "failed"
                 \/ /\ iteration = config.max_iterations
                    /\ result[1].iterations = config.max_iterations

\* C11 witness: with an empty allow-list, in a repository whose tree has
\* changed files, an interactive iteration went past the guardrail's place
C11_Witness ==
    /\ config.allowed_paths = <<>>
    /\ is_repo
    /\ get_changed_files(git) # {}
    /\ Did("pause")
    /\ pc = "loop"

\* entry a of an allow-list matches path p
Matches(a, p) ==
    IF a # <<>> /\ a[Len(a)] = "/"
    THEN \/ \E k \in 0..Len(p) : SubSeq(p, 1, k) = a
         \/ p \o <<"/">> = a
    ELSE p = a

\* path p lies beneath a
Beneath(p, a) ==
    /\ Len(p) > Len(a)
    /\ SubSeq(p, 1, Len(a)) = a
    /\ p[Len(a) + 1] = "/"

\* the call made, when it is a call of fn
Called(fn) == call # None /\ call[1].fn = fn

\* C12: path_is_allowed(p, A) is True iff some entry of A matches p: an
\* entry ending in "/" matches the paths that start with it and the bare
\* directory name, any other entry matches only the path equal to it, and
\* so never a path beneath it.
C12_PathIsAllowed ==
    Called("path_is_allowed") =>
        LET p == call[1].args.path
            A == call[1].args.allowed_paths
        IN  /\ call[1].ret <=> (\E a \in Range(A) : Matches(a, p))
            /\ \A a \in Range(A) :
                  (A = <<a>> /\ (a = <<>> \/ a[Len(a)] # "/") /\ Beneath(p, a))
                      => ~call[1].ret

\* C12 witness: the bare directory name is allowed by its entry
C12_Witness ==
    /\ Called("path_is_allowed")
    /\ call[1].args.path = <<"o">>
    /\ call[1].args.allowed_paths = << <<"a">>, <<"o", "/">> >>
    /\ call[1].ret

\* s sorts strictly before t
StrLess(s, t) == StrLeq(s, t) /\ s # t

\* C13: for a non-empty allow-list, check_violations returns in ascending
\* order without duplicates exactly the changed files that are not allowed,
\* the same list for every iteration order of the set and for a second call.
C13_CheckViolations ==
    (Called("check_violations") /\ call[1].args.allowed_paths # <<>>) =>
        LET order == call[1].args.changed_files
            A == call[1].args.allowed_paths
            ret == call[1].ret
        IN  /\ \A i, j \in 1..Len(ret) : i < j => StrLess(ret[i], ret[j])
            /\ Range(ret) = {f \in Range(order) : ~path_is_allowed(f, A)}
            /\ \A other \in Orders(Range(order)) :
                  check_violations(other, A) = ret
            /\ call[1].again = ret

\* C13 witness: a set iterated out of order with two violations and an
\* allowed file
C13_Witness ==
    /\ Called("check_violations")
    /\ call[1].args.changed_files = << <<"o", "a">>, <<"o", "/", "a">>, <<"a">> >>
    /\ call[1].args.allowed_paths = << <<"o", "/">> >>
    /\ call[1].ret = << <<"a">>, <<"o", "a">> >>

\* the parser driven on its own hides prompt echo
HidingConfigured ==
    parser # None /\ parser[1].prompt_lines # <<>> /\ ~parser[1].show_prompt

\* line.rstrip("\r") of the i-th line fed
CleanFed(i) == RStripTok(fed[i], "CR")

\* the i-th line fed is a content line in a user section
InUserSection(i) == ~IsRoleMarker(fed, i) /\ ChannelAt(fed, i) = "PROMPT"

\* its position in that section: 1 for the line after the user marker
SectionPos(i) == i - Max({j \in 1..(i - 1) : IsRoleMarker(fed, j)})

\* the lines of the section before position k are the first lines of the
\* prompt file
EchoUpTo(i, k) ==
    /\ k <= Len(parser[1].prompt_lines)
    /\ \A m \in 1..k :
          CleanFed(i - SectionPos(i) + m) = parser[1].prompt_lines[m]

\* the i-th line fed is the next line of an intact echo of the prompt
ContinuesEcho(i) ==
    /\ HidingConfigured
    /\ InUserSection(i)
    /\ EchoUpTo(i, SectionPos(i))

\* the i-th line fed is the first of its section to differ from the prompt
Diverges(i) ==
    /\ HidingConfigured
    /\ InUserSection(i)
    /\ SectionPos(i) <= Len(parser[1].prompt_lines)
    /\ EchoUpTo(i, SectionPos(i) - 1)
    /\ CleanFed(i) # parser[1].prompt_lines[SectionPos(i)]

\* the tagged line the classifier returns for a content line it shows
Shown(i) == \E k \in 1..Len(outs[i]) : outs[i][k].text = CleanFed(i)

\* the classifier returned nothing that carries the i-th line
Withheld(i) == ~IsRoleMarker(fed, i) /\ ~Shown(i)

\* C19: the classifier withholds a content line exactly when it is in a
\* user section, suppression is configured and not yet disabled in that
\* section, and the line equals the prompt-file line at its position; so the
\* lines withheld in a section are the first k lines of the prompt file in
\* order, and nothing is withheld outside a user section, after a
\* divergence, or with show_prompt.
C19_WithholdsOnlyPromptEcho ==
    parser # None =>
        /\ Len(outs) = Len(fed)
        /\ \A i \in 1..Len(fed) :
              /\ Withheld(i) <=> ContinuesEcho(i)
              /\ Withheld(i) =>
                    /\ parser[1].prompt_lines # <<>>
                    /\ ~parser[1].show_prompt
                    /\ SectionPos(i) <= Len(parser[1].prompt_lines)
                    /\ \A m \in 1..SectionPos(i) :
                          Withheld(i - SectionPos(i) + m)

\* C19 witness: the whole prompt was echoed and withheld, and the line
\* after it, equal to the first prompt line, was shown
C19_Witness ==
    /\ HidingConfigured
    /\ fed = <<L_user, L_text_cr, L_marker, L_text>>
    /\ Len(outs) = 4
    /\ Withheld(2)
    /\ Withheld(3)
    /\ ~Withheld(4)

\* C20: when a line of an echo differs from the expected prompt line, the
\* classifier returns the disclosure note followed by that line tagged as
\* system output, withholds no later line until the next user role marker,
\* and goes on classifying the lines that follow.
C20_DivergenceDiscloses ==
    parser # None =>
        \A i \in 1..Len(fed) :
            Diverges(i) =>
                LET n == Len(outs[i])
                IN  /\ n >= 2
                    /\ outs[i][n - 1] = HidingDisabledNote
                    /\ outs[i][n] = TranscriptLine("SYS", CleanFed(i))
                    /\ \A k \in 1..(n - 2) :
                          outs[i][k] = PromptHiddenCount(SectionPos(i) - 1)
                    /\ \A j \in (i + 1)..Len(fed) :
                          (\A m \in (i + 1)..j :
                               MarkerRole(MarkerOf(fed[m])) # "PROMPT")
                              => /\ ~Withheld(j)
                                 /\ IsRoleMarker(fed, j) \/ Len(outs[j]) = 1

\* C20 witness: the second line of the echo diverged after one hidden line,
\* and the next line, equal to a prompt line, was shown
C20_Witness ==
    /\ HidingConfigured
    /\ fed = <<L_user, L_text, L_blank, L_marker>>
    /\ Len(outs) = 4
    /\ outs[3] = <<PromptHiddenCount(1), HidingDisabledNote,
                   TranscriptLine("SYS", <<>>)>>
    /\ outs[4] = <<TranscriptLine("SYS", L_marker)>>

\* the line after the user section opened by the marker at u: the next
\* role marker, or one past the stream
SectionEnd(u) ==
    LET ms == {j \in (u + 1)..Len(fed) : IsRoleMarker(fed, j)}
    IN  IF ms = {} THEN Len(fed) + 1 ELSE CHOOSE j \in ms : \A m \in ms : j <= m

\* the number of lines withheld in the user section opened at u
HiddenIn(u) == Cardinality({i \in (u + 1)..(SectionEnd(u) - 1) : Withheld(i)})

\* the places where a final summary of the section opened at u was returned:
\* with a line that was not itself withheld (a withheld line returns the
\* header and progress notes only), up to and including the closing marker
FinalSummaries(u) ==
    {ik \in ((u + 1)..Len(fed)) \X (1..3) :
        /\ ik[1] <= SectionEnd(u)
        /\ ~Withheld(ik[1])
        /\ ik[2] <= Len(outs[ik[1]])
        /\ outs[ik[1]][ik[2]] = PromptHiddenCount(HiddenIn(u))}

\* C21: for every user section that is over (closed by a role marker or by
\* the end of the stream) the classifier has returned the final suppression
\* summary exactly once if a line was hidden in it, and not at all if none
\* was.
C21_SummaryOncePerSection ==
    parser # None =>
        \A u \in 1..Len(fed) :
            (/\ MarkerRole(MarkerOf(fed[u])) = "PROMPT"
             /\ SectionEnd(u) <= Len(fed) \/ parser[1].closed)
                => Cardinality(FinalSummaries(u)) = IF HiddenIn(u) > 0 THEN 1 ELSE 0

\* C22: whenever run_loop returns a non-zero exit_code, at least one line
\* has been emitted through the sink's error operation before the return.
C22_NonZeroExitHasErrorLine ==
    (Returned /\ result[1].exit_code # 0) => ui_err # <<>>

\* C23: a result with completed=False, exit_code=1 and iterations equal to
\* max_iterations is returned only when the iteration budget was exhausted
\* without completion, never by a guardrail failure or a checkout failure.
C23_ExhaustionDistinguishable ==
    (Returned /\ result = Some(LoopResult(FALSE, config.max_iterations, 1)))
    => /\ ~GuardFailed
       /\ checkout # "failed"
       /\ agent_calls = config.max_iterations
       /\ ~completion_seen

\* preflight has resolved the branch
Preflighted == world.prompt_exists /\ pc # "start"

\* the branch of a git checkout command
BranchOf(c) == c.cmd[Len(c.cmd)]

\* the command creates the branch
Creates(c) == \E i \in 1..Len(c.cmd) : c.cmd[i] = "-b"

\* C24: in preflight inside a repository a non-empty branch name set on the
\* configuration is checked out, created when it does not exist; with no
\* branch set on the configuration, the branch a valid PRD declares is
\* checked out; otherwise nothing is checked out.  Outside a repository
\* nothing is ever checked out, and a missing or malformed PRD raises no
\* error and resolves to "no branch configured".  ("Explicitly configured"
\* is read as: ralph_branch is set on the configuration.)
C24_BranchPrecedence ==
    Preflighted =>
        /\ Len(git_checkouts) <= 1
        /\ ~is_repo => git_checkouts = <<>> /\ checkout = "not a repository"
        /\ \A i \in 1..Len(git_checkouts) :
              Creates(git_checkouts[i]) <=> ~git_checkouts[i].exists
        /\ (is_repo /\ config.ralph_branch # None /\ config.ralph_branch # Some(""))
              => /\ Len(git_checkouts) = 1
                 /\ BranchOf(git_checkouts[1]) = config.ralph_branch[1]
        /\ (is_repo /\ config.ralph_branch = Some(""))
              => git_checkouts = <<>> /\ checkout = "skipped"
        /\ (is_repo /\ config.ralph_branch = None /\ world.prd = "valid")
              => /\ Len(git_checkouts) = 1
                 /\ BranchOf(git_checkouts[1]) = "prd-branch"
        /\ (is_repo /\ config.ralph_branch = None /\ world.prd # "valid")
              => /\ git_checkouts = <<>>
                 /\ checkout = "no branch configured"
                 /\ ui_err = <<>>
                 /\ ~(Returned /\ iteration = 0 /\ config.max_iterations > 0)

\* C24 witness: a branch set on the configuration that did not exist was
\* created although the PRD declares another one
C24_Witness ==
    /\ Preflighted
    /\ is_repo
    /\ world.prd = "valid"
    /\ config.ralph_branch = Some("feature")
    /\ git_checkouts = <<checkout_branch("feature", "from RALPH_BRANCH", FALSE, 0)>>
    /\ checkout = "ok"

\* C25 as stated: an empty-string branch skips the checkout only when the
\* explicit flag is set, and whenever the flag is not set the branch is
\* resolved by the PRD lookup whatever the branch string holds.
C25_FlagCarriesDistinction ==
    (Preflighted /\ is_repo) =>
        /\ checkout = "skipped" => config.ralph_branch_explicit
        /\ ~config.ralph_branch_explicit =>
              IF world.prd = "valid"
              THEN /\ Len(git_checkouts) = 1
                   /\ BranchOf(git_checkouts[1]) = "prd-branch"
              ELSE checkout = "no branch configured"

\* C25 amended: the distinction is carried by the branch value.  An empty
\* string skips the checkout whether or not the flag is set, the PRD lookup
\* happens exactly when no branch is set on the configuration, and the flag
\* only selects the source label of a configured branch.
C25_BranchValueCarriesDistinction ==
    (Preflighted /\ is_repo) =>
        /\ checkout = "skipped" <=> config.ralph_branch = Some("")
        /\ (\/ checkout = "no branch configured"
            \/ \E i \in 1..Len(git_checkouts) :
                  git_checkouts[i].source = "from PRD")
              <=> config.ralph_branch = None
        /\ (config.ralph_branch # None /\ config.ralph_branch # Some(""))
              => /\ Len(git_checkouts) = 1
                 /\ BranchOf(git_checkouts[1]) = config.ralph_branch[1]
                 /\ git_checkouts[1].source =
                       IF config.ralph_branch_explicit
                       THEN "from RALPH_BRANCH" ELSE "default"

\* C25 witness: a branch set on the configuration without the explicit flag
\* was checked out although the PRD declares one
C25_Witness ==
    /\ Preflighted
    /\ is_repo
    /\ ~config.ralph_branch_explicit
    /\ world.prd = "valid"
    /\ config.ralph_branch = Some("feature")
    /\ Len(git_checkouts) = 1
    /\ BranchOf(git_checkouts[1]) = "feature"
    /\ git_checkouts[1].source = "default"

\* C26: when the checkout or creation of the branch fails in preflight,
\* run_loop emits an error and returns completed=False, iterations=0,
\* exit_code=1; the agent is never invoked and the checkout was tried once.
C26_CheckoutFailure ==
    /\ checkout = "failed" <=>
          (git_checkouts # <<>> /\ ~git_checkouts[Len(git_checkouts)].ok)
    /\ checkout = "failed" =>
          /\ Returned
          /\ result = Some(LoopResult(FALSE, 0, 1))
          /\ ui_err = <<"failed to checkout branch">>
          /\ Len(git_checkouts) = 1
          /\ agent_calls = 0
          /\ alive = 0
          /\ steps = <<>>

\* C26 witness: the creation of a branch failed with iterations to run
C26_Witness ==
    /\ checkout = "failed"
    /\ config.max_iterations > 0
    /\ Len(git_checkouts) = 1
    /\ Creates(git_checkouts[1])
    /\ Returned

\* the iteration count in force at an entry: the argument when given, else
\* the environment's
EntryCount == IF call[1].arg # None THEN call[1].arg[1] ELSE call[1].env

\* C27: on every entry path a negative iteration count is reported through
\* the sink's error operation, no agent iteration is started, and the
\* outcome carries exit code 2.
C27_NegativeCountRejected ==
    (call # None /\ pc # "entry" /\ EntryCount < 0)
    => /\ agent_calls = 0
       /\ ui_err = <<"MAX_ITERATIONS must be non-negative">>
       /\ pc = "exited"
       /\ call[1].exit = Some(2)

\* C28: run_loop sleeps after iteration k exactly when iteration k did not
\* stop the loop and k < max_iterations: during iteration k it has slept k-1
\* times, it does not sleep after the last iteration nor before a return,
\* and a run that exhausts N >= 1 iterations has slept N-1 times.
C28_SleepBetweenIterations ==
    /\ pc \in {"start", "entry"} => sleeps = 0
    /\ pc \in {"agent", "decide", "callback", "check", "guard", "pause", "sleep",
               "raised"}
          => sleeps = iteration - 1
    /\ (pc = "loop" /\ iteration >= 1)
          => /\ Did("sleep") <=> iteration < config.max_iterations
             /\ sleeps = IF iteration < config.max_iterations
                         THEN iteration ELSE iteration - 1
    /\ Returned => sleeps = Max({iteration - 1, 0})
    /\ (Returned /\ agent_calls = config.max_iterations /\ ~completion_seen
        /\ ~GuardFailed /\ pause_choice # 2 /\ config.max_iterations >= 1)
          => sleeps = config.max_iterations - 1

\* C28 witness: a run that exhausted two iterations has slept once
C28_Witness ==
    /\ Returned
    /\ result = Some(LoopResult(FALSE, 2, 1))
    /\ agent_calls = 2
    /\ ~GuardFailed
    /\ sleeps = 1

\* the thread is inside the lock for its root: from the moment it has added
\* the root until it has discarded it
Inside(t) == threads[t].pc \in {"added", "held", "finally", "discard"}

\* C29: within a process acquire_root_lock gives mutual exclusion per
\* resolved root under every interleaving: the active set is exactly the
\* set of roots some thread is inside for, no two threads are inside for the
\* same root, an acquisition that finds a holder inside for its root raises
\* RuntimeError, and one that finds none (another root held, or the holder
\* gone) succeeds.
C29_RootLockExcludes ==
    /\ [](/\ \A p \in Procs :
               ACTIVE_ROOTS[p] =
                   {threads[t].root : t \in {u \in Threads : ProcOf(u) = p /\ Inside(u)}}
          /\ \A t, u \in Threads :
               (t # u /\ ProcOf(t) = ProcOf(u) /\ Inside(t) /\ Inside(u))
                  => threads[t].root # threads[u].root
          /\ \A p \in Procs : LOCK[p] # 0 =>
               threads[LOCK[p]].pc \in {"check", "added", "raising", "discard",
                                        "discarded"})
    /\ [][\A t \in Threads :
            (threads[t].pc = "check" /\ threads'[t].pc # "check")
               => threads'[t].pc =
                     IF \E u \in Threads \ {t} :
                           /\ ProcOf(u) = ProcOf(t)
                           /\ Inside(u)
                           /\ threads[u].root = threads[t].root
                     THEN "raising" ELSE "added"]_vars

\* C29 witness: thread 1 holds /r and thread 2 of the same process, which
\* asked for the same root through another path, got RuntimeError
C29_Witness ==
    /\ threads[1] = [pc |-> "held", root |-> "/r", exc |-> FALSE]
    /\ threads[2] = [pc |-> "raised", root |-> "/r", exc |-> FALSE]

\* C30: the root lock prevents two loop invocations made through the tool
\* interface from operating on the same working tree at the same time.
C30_NoConcurrentLoopsOnATree ==
    \A t, u \in Threads : \A c, d \in CallSlots :
        (<<t, c>> # <<u, d>> /\ tool_calls[t][c] # "")
           => tool_calls[t][c] # tool_calls[u][d]

\* the final message this iteration's agent call determines from the lines
\* it yielded, the --output-last-message file aside
FinalFromOutput ==
    IF world.agent = "codex"
    THEN IF last_non_empty(output_lines) = <<>> THEN None
         ELSE LET nonblank == {i \in 1..Len(output_lines) : Strip(output_lines[i]) # <<>>}
              IN  Some(output_lines[Max(nonblank)])
    ELSE IF output_lines = <<>> THEN None
         ELSE Some(output_lines[Len(output_lines)])

\* C31: the agent's final message is None from the start of an agent call
\* until its process has exited, and from then on it is what that call
\* produced (the content of its --output-last-message file, or the last line
\* it yielded); a final message carried by the agent object from an earlier
\* call never completes a later iteration.
C31_FinalMessageIsThisCalls ==
    /\ pc = "agent" => final_message = None
    /\ (iteration >= 1 /\ pc # "agent")
          => /\ final_message # Some(StaleFinalMessage)
             /\ \/ final_message = FinalFromOutput
                \/ /\ world.agent = "codex"
                   /\ world.supports_output_last_message
                   /\ \E written \in LastMessages :
                         /\ Strip(written) # <<>>
                         /\ final_message = Some(Strip(written))
    /\ (Decided /\ completion_seen)
          => \/ EndsWithExactMarker(world.agent, output_lines)
             \/ /\ final_message # None
                /\ final_message # Some(StaleFinalMessage)
                /\ ContainsMarker(final_message[1])

\* C31 witness: an agent object carrying a completed call's final message
\* ran an iteration without output, and the iteration did not complete
C31_Witness ==
    /\ world.stale
    /\ Returned
    /\ agent_calls = 1
    /\ output_lines = <<>>
    /\ final_message = None
    /\ result = Some(LoopResult(FALSE, 1, 1))

\* the notes the classifier makes up itself
SyntheticNotes ==
    {PromptHiddenHeader, HidingDisabledNote}
        \cup {PromptHiddenCount(k) : k \in 0..MaxLines + 1}

\* the role the classifier is in at the i-th line fed: the role of the most
\* recent marker, but system output once a user section under suppression
\* has stopped following the prompt file
RoleAt(i) ==
    IF HidingConfigured /\ InUserSection(i) THEN "SYS" ELSE ChannelAt(fed, i)

\* the shape of what feed returned for the i-th line, when a line it passes
\* on carries the tag role
FeedShape(i, role) ==
    LET n == Len(outs[i])
    IN  /\ \A k \in 1..n : outs[i][k].tag \in {"AI", "THINK", "TOOL", "SYS", "PROMPT"}
        /\ IF IsRoleMarker(fed, i)
           THEN /\ \A k \in 1..n : outs[i][k] \in SyntheticNotes
                /\ i = Len(fed) => parser[1].p.role = MarkerRole(MarkerOf(fed[i]))
           ELSE ~Withheld(i) =>
                    /\ n >= 1
                    /\ outs[i][n] = TranscriptLine(role, CleanFed(i))
                    /\ \A k \in 1..(n - 1) : outs[i][k] \in SyntheticNotes

\* C33 as stated: feed returns a list of tagged lines; for a role marker
\* (any case, surrounding whitespace and trailing colons ignored) none of
\* them carries the marker's text and the role changes; every other line
\* that is not withheld is returned once, as the last element, tagged with
\* the role of the most recent marker (system before any), after synthetic
\* notes only.
C33_TaggedByLastMarker ==
    parser # None =>
        /\ Len(outs) = Len(fed)
        /\ \A i \in 1..Len(fed) :
              FeedShape(i, ChannelAt(fed, i))

\* C33 amended: the same, with the line that is passed on tagged with the
\* classifier's current role: the role of the most recent marker (system
\* before any), or system output in a user section under suppression from
\* the line at which the echo stopped following the prompt file.
C33_TaggedByCurrentRole ==
    parser # None =>
        /\ Len(outs) = Len(fed)
        /\ \A i \in 1..Len(fed) :
              FeedShape(i, RoleAt(i))

\* C33 witness: the line that followed a whole echo of the prompt in a user
\* section was passed on as system output, after the final summary
C33_Witness ==
    /\ HidingConfigured
    /\ fed = <<L_user, L_text, L_marker, L_blank>>
    /\ Len(outs) = 4
    /\ outs[4] = <<PromptHiddenCount(2), TranscriptLine("SYS", <<>>)>>
    /\ ChannelAt(fed, 4) = "PROMPT"

\* the thread has been refused the root and is on its way back to its caller
Refused(t) == threads[t].pc \in {"raising", "raised"}

\* C37: the root lock is released exactly by its holder: the active set is
\* always the set of roots with a live holder; a failed acquisition leaves
\* it unchanged up to the return to its caller; a root leaves it only by
\* the discard of the thread that holds it; and a holder whose body ended by
\* an exception has removed its root when the exception reaches its caller.
C37_ReleasedByHolder ==
    /\ [](/\ \A p \in Procs :
               ACTIVE_ROOTS[p] =
                   {threads[t].root : t \in {u \in Threads : ProcOf(u) = p /\ Inside(u)}}
          /\ \A t \in Threads :
               threads[t].pc = "discarded"
                  => threads[t].root \notin ACTIVE_ROOTS[ProcOf(t)])
    /\ [][/\ \A t \in Threads :
               (threads'[t] # threads[t] /\ (Refused(t) \/ Refused(t)'))
                  => ACTIVE_ROOTS' = ACTIVE_ROOTS
          /\ \A p \in Procs : \A r \in ACTIVE_ROOTS[p] \ ACTIVE_ROOTS'[p] :
               \E t \in Threads :
                  /\ ProcOf(t) = p
                  /\ threads[t].pc = "discard"
                  /\ threads[t].root = r
                  /\ threads'[t].pc = "discarded"
          /\ \A t \in Threads :
               (threads[t].pc = "discarded" /\ threads'[t].pc = "propagating")
                  => /\ threads[t].exc
                     /\ threads[t].root \notin ACTIVE_ROOTS'[ProcOf(t)]]_vars

\* C37 witness: thread 1, whose body ended by an exception, has removed /r
\* and the exception is on its way to its caller
C37_Witness ==
    /\ threads[1] = [pc |-> "propagating", root |-> "/r", exc |-> TRUE]
    /\ ACTIVE_ROOTS[1] = {}

\* run_loop was called without edits allowed: mcp/runner.py 91-93
ReadOnly == world.callback = "read_only_guard"

\* C38: in a run without edits allowed, when the tree has a changed file
\* after an executed iteration the run ends with execution_failed listing
\* the changed files, in place of a result, and no later iteration starts;
\* the check comes before the completion decision takes effect, so control
\* passes it, and run_loop returns completion, only with a clean tree,
\* whether or not the changed file is on the allow-list.
C38_ReadOnlyGuard ==
    ReadOnly =>
        /\ pc = "raised" <=> raised # None
        /\ pc = "raised" =>
              /\ get_changed_files(git) # {}
              /\ raised = Some(ExecutionFailedError(iteration,
                                                    Sorted(get_changed_files(git))))
              /\ result = None
              /\ agent_calls = iteration
              /\ iteration >= 1
        /\ pc \in {"check", "guard", "pause", "sleep"} => get_changed_files(git) = {}
        /\ (pc \in {"loop", "agent"} /\ iteration >= 1 /\ agent_calls >= 1)
              => (pc = "agent" /\ agent_calls = 1) \/ get_changed_files(git) = {}
        /\ (Returned /\ agent_calls >= 1) => get_changed_files(git) = {}

\* C38 witness: the first iteration ended on the marker with only the file
\* on the allow-list changed, and the run ended with execution_failed
\* naming that file
C38_Witness ==
    /\ ReadOnly
    /\ pc = "raised"
    /\ completion_seen
    /\ config.allowed_paths # <<>>
    /\ raised = Some(ExecutionFailedError(1, <<P_ok>>))

\* run_loop has returned a LoopResult: Completed or Stopped
Ended == pc = "done"

\* what holds on the way: k is the number of agent calls made and stays
\* within the budget, and a run that has ended has one result
Iterating ==
    /\ agent_calls = iteration
    /\ iteration <= Max({config.max_iterations, 0})
    /\ Ended => result # None /\ result[1].iterations <= iteration
    /\ pc = "raised" => ReadOnly /\ result = None

\* one step of the run: k grows by one with each agent call and not
\* otherwise, and once the run is over there is no agent call, no choice
\* asked and no sleep
CountsAndStops ==
    /\ iteration' \in {iteration, iteration + 1}
    /\ iteration' = iteration + 1 <=> agent_calls' = agent_calls + 1
    /\ pc \in {"done", "raised"} =>
          /\ pc' = pc
          /\ agent_calls' = agent_calls
          /\ sleeps' = sleeps
          /\ guard' = guard
          /\ pause_choice' = pause_choice

\* C35 as stated: when every agent call's stream ends and its process exits
\* and every choice returns, the run goes from Idle through Preflight to
\* Iterating(k), k growing by one per agent call and never above
\* max_iterations, and eventually reaches Completed or Stopped, after which
\* there is no agent call, choice or sleep.
C35_ReachesCompletedOrStopped ==
    /\ []Iterating
    /\ [][CountsAndStops]_vars
    /\ <>Ended

\* C35 amended: the same, but the run ends in Completed or Stopped or, when
\* the iteration callback raises, by that exception without a result.
C35_Terminates ==
    /\ []Iterating
    /\ [][CountsAndStops]_vars
    /\ <>(Ended \/ pc = "raised")

\* C35 witness: the second iteration of a run was ended by the exception of
\* the iteration callback, after one sleep
C35_Witness ==
    /\ pc = "raised"
    /\ iteration = 2
    /\ agent_calls = 2
    /\ sleeps = 1

\* the run_loop calls of a phase, by their place in the order of calls
LoopsOf(phase) ==
    {i \in 1..Len(feature[1].loops) : feature[1].loops[i].phase = phase}

\* C39: the phases of the feature command run in sequence and the repairs
\* are bounded: the implementation loop is the second call, after an
\* understanding loop that returned 0 and a review gate that was passed or
\* skipped; a repair loop follows an implementation loop that returned
\* non-zero with at least one iteration, and follows only repair loops that
\* returned non-zero; there are at most repair_max_runs of them; and once
\* repairs have run the command exits 0 at the first that returns 0 and
\* otherwise with the exit code of the last.
C39_PhasesInSequence ==
    feature # None =>
        LET f == feature[1]
            n == Len(f.loops)
        IN  /\ LoopsOf("understand") \subseteq {1}
            /\ LoopsOf("run") \subseteq {2}
            /\ LoopsOf("repair") \subseteq 3..n
            /\ n >= 1 => f.loops[1].phase = "understand"
            /\ n >= 2 =>
                  /\ f.loops[1].result.exit_code = 0
                  /\ f.gate \in {"start", "skipped"}
                  /\ f.gate = "skipped" <=> f.implementation_auto_run
            /\ n >= 3 =>
                  /\ f.loops[2].result.exit_code # 0
                  /\ f.loops[2].result.iterations >= 1
                  /\ \A i \in 3..(n - 1) : f.loops[i].result.exit_code # 0
            /\ Cardinality(LoopsOf("repair")) <= Max({f.repair_max_runs, 0})
            /\ (f.pc = "repair") => f.attempt = n - 1
            /\ (f.pc = "exited" /\ n >= 3) =>
                  /\ f.exit = Some(f.loops[n].result.exit_code)
                  /\ f.loops[n].result.exit_code = 0 \/ n - 2 = f.repair_max_runs

\* C39 witness: the implementation loop failed after an iteration, the first
\* repair failed, the second returned 0 and the command exited 0
C39_Witness ==
    /\ feature # None
    /\ feature[1].pc = "exited"
    /\ feature[1].exit = Some(0)
    /\ Len(feature[1].loops) = 4
    /\ feature[1].loops[3].result.exit_code = 1
    /\ feature[1].loops[4].result = LoopResult(TRUE, 1, 0)

\* the tagged line is in what the sink has shown: streamed, or in the
\* Session info panel as a note or as a key with its value
InSink(tagged) ==
    \/ tagged \in Range(display[1].streamed)
    \/ \E i \in 1..Len(display[1].panels) :
          LET panel == display[1].panels[i]
          IN  /\ panel.title = "Session info"
              /\ \/ [tagged EXCEPT !.text = Strip(tagged.text)] \in Range(panel.lines)
                 \/ /\ extract_sys_kv(tagged.text) # None
                    /\ extract_sys_kv(tagged.text)[1] \in Range(panel.lines)

\* the places in routed of the lines the classifier discloses at a
\* divergence: the note and the diverged line after it
Disclosed ==
    {j \in 1..Len(display[1].routed) :
        \/ display[1].routed[j] = HidingDisabledNote
        \/ j > 1 /\ display[1].routed[j - 1] = HidingDisabledNote}

\* C32: in every iteration and under every system-verbosity mode, the
\* disclosure note and the diverged line the classifier returns have been
\* shown through the sink, streamed or in a panel, when the iteration's
\* display is over.
C32_DisclosureReachesSink ==
    (display # None /\ display[1].ended) =>
        \A j \in Disclosed : InSink(display[1].routed[j])

\* the places in routed at which a summary is due to be opened: a tool line
\* that is a header, or that follows no tool line
ToolOpenings ==
    {j \in 1..Len(display[1].routed) :
        /\ display[1].routed[j].tag = "TOOL"
        /\ \/ TOOL_HEADER_RE(display[1].routed[j].text)
           \/ j = 1
           \/ display[1].routed[j - 1].tag # "TOOL"}

\* the place in routed of the line that closes the summary opened at j: the
\* next tool header or the next line that is no tool line; one past the end
\* when there is none yet
ToolClose(j) ==
    LET closing == {m \in (j + 1)..Len(display[1].routed) :
                       \/ display[1].routed[m].tag # "TOOL"
                       \/ TOOL_HEADER_RE(display[1].routed[m].text)}
    IN  IF closing = {} THEN Len(display[1].routed) + 1
        ELSE CHOOSE m \in closing : \A k \in closing : m <= k

\* the summary opened at j as it is when closed
ClosedSummary(j) ==
    [parse_tool_header(display[1].routed[j].text)
        EXCEPT !.output_lines = ToolClose(j) - j - 1]

\* C34: in parsed mode at most one tool summary is open at a time; one is
\* opened at every tool header (and at a tool line that follows none); the
\* list of the iteration holds, in opening order and once each, the
\* summaries closed by a new header, by a line that is no tool line or by
\* the end of the iteration, each with the number of tool lines between its
\* opening and its close; and none is open once the iteration has ended.
C34_ToolSummaries ==
    (display # None /\ display[1].parser # None) =>
        LET d == display[1]
            n == Len(d.opened)
            closed == IF d.active_tool = None THEN n ELSE n - 1
        IN  /\ Range(d.opened) = ToolOpenings
            /\ \A i \in 1..(n - 1) : d.opened[i] < d.opened[i + 1]
            /\ Len(d.tool_summaries) = closed
            /\ \A i \in 1..closed :
                  /\ d.tool_summaries[i] = ClosedSummary(d.opened[i])
                  /\ ToolClose(d.opened[i]) <= Len(d.routed) \/ d.ended
            /\ d.active_tool # None =>
                  /\ n >= 1
                  /\ d.active_tool[1] = parse_tool_header(d.routed[d.opened[n]].text)
                  /\ d.active_tool_lines = Len(d.routed) - d.opened[n]
                  /\ ToolClose(d.opened[n]) = Len(d.routed) + 1
            /\ d.ended => d.active_tool = None

\* C34 witness: a header, a line of output and a second header: the first
\* summary was closed by the second header with one line, the second by the
\* end of the iteration with none
C34_Witness ==
    /\ display # None
    /\ display[1].ended
    /\ display[1].output_lines = <<L_tool, L_header, L_text, L_header>>
    /\ display[1].tool_summaries =
          <<[ToolSummary(<<"x">>, "ok", Some("1s")) EXCEPT !.output_lines = 1],
            ToolSummary(<<"x">>, "ok", Some("1s"))>>

\* the completion rules of a Codex iteration, from its raw output and the
\* agent's final message alone
CompletionOf(output, final) ==
    \/ final # None /\ ContainsMarker(final[1])
    \/ EndsWithExactMarker("codex", output)

\* C36: for a Codex agent the completion decision of an iteration is the
\* same under every display setting (raw or parsed, show-prompt, progress
\* interval, tool and system verbosity, show-final): it is determined by the
\* iteration's output and final message.
C36_DisplayIndependent ==
    (display # None /\ display[1].ended) =>
        display[1].completion_seen =
            CompletionOf(display[1].output_lines, display[1].final_message)

\* C36 witness: in raw mode an iteration whose final message does not carry
\* the marker completed on its last assistant line, tool output following
C36_Witness ==
    /\ display # None
    /\ display[1].ended
    /\ display[1].config.ai_raw
    /\ display[1].output_lines = <<L_assistant, L_marker, L_tool, L_text>>
    /\ display[1].final_message = Some(L_text)
    /\ display[1].completion_seen

============================================================================
